---- MODULE Spec2Model ----
(***************************************************************************)
(* Model of the streamed task protocol of hayotensor/subnet:              *)
(*   - handle_generic_task  (hypertensor/handler.py): the worker handler   *)
(*   - handle_task          (engine/engine.py): the router / proxy         *)
(*   - EngineClient.submit_task (engine/coordinator.py): the session       *)
(*   - handle_connection    (engine/engine.py): one inbound connection,    *)
(*     its concurrent handle_task children and the shared inbound stream   *)
(* Each component has its own specification (SpecHandler, SpecRouter,      *)
(* SpecClient, SpecConn); the variables of the other components stay       *)
(* unchanged.                                                              *)
(***************************************************************************)
EXTENDS Integers, Sequences, FiniteSets, TLC

VARIABLES
    \* ---- handle_generic_task
    h_pc,        \* "start" | "gen" | "except" | "returned"
    h_payload,   \* req.payload, as the handler sees it
    h_model,     \* model_name once resolved
    h_prompt,    \* prompt once resolved
    h_frags,     \* fragments the processor has yielded so far
    h_calls,     \* objects passed to send_response_func, in call order
    h_out,       \* objects send_response_func accepted (the emitted messages)
    h_sendFailed,\* a send_response_func call has raised
    h_exc,       \* str(e) of the exception being handled
    h_generated, \* model_instance.generate was invoked
    \* ---- handle_task
    r_pc,        \* "start" | "connect" | "sendreq" | "recv" | "fwd" | "except" | "finally" | "returned"
    r_req,       \* the inbound request
    r_conn,      \* app_client._stream: "none" | "open" | "closed"
    r_toApp,     \* messages written to the outbound stream
    r_recvd,     \* messages recv_msg(app_stream) returned, in order
    r_msg,       \* msg of the relay loop
    r_calls,     \* messages passed to send_msg(stream, .), in call order
    r_in,        \* messages written to the inbound stream
    r_exc,       \* str(e) of the exception being handled
    r_end,       \* how the relay ended: "none" | "terminal" | "eof" | "exception" | "dropped"
    \* ---- submit_task
    c_pc,        \* "start" | "attempt" | "lines" | "sleep" | "returned"
    c_id,        \* request_id
    c_payload,   \* payload argument
    c_sent,      \* rpc_req of every POST, in order
    c_cur,       \* lines received in the current attempt
    c_hist,      \* per finished attempt, the data of its matching chunks
    c_yield,     \* values yielded to the caller
    c_end,       \* why the generator returned, "none" while running
    c_outcome,   \* what the caller observes: "running" | "end" | "raised"
    c_status,    \* per POST, what came back: "200" | "other" | "unread" | "none"
    \* ---- handle_connection
    s_pc,        \* "reading" | "waiting" (nursery exit) | "returned"
    s_why,       \* how the read loop ended: "none" | "eof" | "error"
    s_read,      \* request_id of every request read, in order
    t_task,      \* per request_id, the handle_task child started for it
    w_holder,    \* request_id of the child inside stream.send_all, or Absent
    w_wire,      \* what has been written to the inbound stream, in order
    w_obs,       \* what recv_msg has returned at the peer, in order
    o_conns,     \* the outbound connection made by each child, if any
    \* ---- send_msg / recv_msg on one stream
    f_pc,        \* "send" | "header" | "payload" | "returned" | "sendraised"
    f_msg,       \* the object given to send_msg
    f_wire,      \* the bytes send_msg has written
    f_cut,       \* how many of them the stream delivers before it ends or fails
    f_event,     \* what the stream does after that: "eof" | "error"
    f_pos,       \* how many bytes receive_some has returned so far
    f_buf,       \* buf of the receive_exactly call in progress
    f_size,      \* size, once the header has been read
    f_ret,       \* what recv_msg did: Running, a message, None, or it raised
    \* ---- jsonrpc_endpoint and its response_generator
    g_pc,        \* "off" | "request" | "rejected" | "receive" | "yield" | "closing" | "ended"
    g_req,       \* the HTTP request
    g_status,    \* the HTTP status of the response, 0 before there is one
    g_code,      \* the JSON-RPC error code of the response, 0 when it has none
    g_chan,      \* the items passed to send_chan.send and not yet received
    g_cur,       \* msg between its receipt and its yield
    g_lines,     \* the lines yielded to the streaming response
    \* ---- one stream with a writer calling send_msg and a reader calling recv_msg
    q_sent,      \* the messages given to send_msg, in order
    q_wire,      \* the bytes written to the stream
    q_closed,    \* the writer has closed the stream
    q_pc,        \* the reader: "idle" | "header" | "payload" | "end"
    q_pos,       \* how many bytes receive_some has returned so far
    q_start,     \* q_pos when the receive_exactly call in progress began
    q_n,         \* n of the receive_exactly call in progress
    q_buf,       \* buf of the receive_exactly call in progress
    q_got        \* the messages recv_msg has returned, in order

hvars == <<h_pc, h_payload, h_model, h_prompt, h_frags, h_calls, h_out,
           h_sendFailed, h_exc, h_generated>>
rvars == <<r_pc, r_req, r_conn, r_toApp, r_recvd, r_msg, r_calls, r_in, r_exc, r_end>>
cvars == <<c_pc, c_id, c_payload, c_sent, c_cur, c_hist, c_yield, c_end,
           c_outcome, c_status>>
nvars == <<s_pc, s_why, s_read, t_task, w_holder, w_wire, w_obs, o_conns>>
fvars == <<f_pc, f_msg, f_wire, f_cut, f_event, f_pos, f_buf, f_size, f_ret>>
gvars == <<g_pc, g_req, g_status, g_code, g_chan, g_cur, g_lines>>
qvars == <<q_sent, q_wire, q_closed, q_pc, q_pos, q_start, q_n, q_buf, q_got>>
xvars == <<fvars, gvars, qvars>>
vars == <<hvars, rvars, cvars, nvars, xvars>>

---------------------------------------------------------------------------
\* Bounds of the model
MaxFrags == 2
MaxRecv == 2
MaxLines == 2
MaxAttempts == 2

\* A key a dict does not have (dict.get returns None)
Absent == "<absent>"

Data == {"a", "b"}

\* A response message of the socket protocol: a dict with request_id, type and,
\* by type, data (chunk) or message (error).
Msg(rid, type, data, message) ==
    [request_id |-> rid, type |-> type, data |-> data, message |-> message]

ChunkMsg(rid, d) == Msg(rid, "chunk", d, Absent)
DoneMsg(rid) == Msg(rid, "done", Absent, Absent)
ErrorMsg(rid, text) == Msg(rid, "error", Absent, text)

IsTerminal(m) == m.type \in {"done", "error"}

RECURSIVE TerminalCount(_)
TerminalCount(s) ==
    IF s = <<>> THEN 0
    ELSE (IF IsTerminal(s[1]) THEN 1 ELSE 0) + TerminalCount(Tail(s))

IsPrefix(s, t) == Len(s) <= Len(t) /\ SubSeq(t, 1, Len(s)) = s

\* zero or more chunks followed by exactly one terminal message
ChunksThenTerminal(s) ==
    /\ Len(s) >= 1
    /\ IsTerminal(s[Len(s)])
    /\ \A i \in 1..(Len(s) - 1) : s[i].type = "chunk"

---------------------------------------------------------------------------
\* handle_generic_task

\* payloads: plain text, JSON that is no object, and JSON objects with or
\* without the model and prompt fields
Payloads ==
    {[kind |-> "text", model |-> Absent, prompt |-> Absent, raw |-> "hello world"],
     [kind |-> "nonobj", model |-> Absent, prompt |-> Absent, raw |-> "[1]"]}
    \cup {[kind |-> "obj", model |-> m, prompt |-> p, raw |-> "{..}"] :
            m \in {Absent, "gpt2", "unknown"}, p \in {Absent, "hi"}}

\* the registry of server.py
Registry == {"gpt2", "llama3"}

HandlerId == "t1"

ResolveModel(p) ==
    IF p.kind = "obj" THEN (IF p.model = Absent THEN "gpt2" ELSE p.model)
    ELSE "gpt2"

\* faulty variant of ResolvePrompt: whatever parses as JSON is treated as an
\* object, so a payload like [1] gives the empty prompt
ResolvePromptAnyJson(p) ==
    IF p.kind \in {"obj", "nonobj"} THEN (IF p.prompt = Absent THEN "" ELSE p.prompt)
    ELSE p.raw
\* lines 29-37: the prompt field of a JSON object ("" when absent), else the
\* payload string itself
ResolvePrompt(p) ==
    IF p.kind = "obj" THEN (IF p.prompt = Absent THEN "" ELSE p.prompt)
    ELSE p.raw

NotFoundText(m) == <<"Model not found", m>>

HInit ==
    /\ h_pc = "start"
    /\ h_payload \in Payloads
    /\ h_model = Absent
    /\ h_prompt = Absent
    /\ h_frags = <<>>
    /\ h_calls = <<>>
    /\ h_out = <<>>
    /\ h_sendFailed = FALSE
    /\ h_exc = Absent
    /\ h_generated = FALSE

HIdle == HInit /\ h_payload.kind = "text"

\* faulty variant of HResolve: an unknown model falls back to the default one
HResolveFallsBack ==
    /\ h_pc = "start"
    /\ h_model' = ResolveModel(h_payload)
    /\ h_prompt' = ResolvePrompt(h_payload)
    /\ h_pc' = "gen"
    /\ h_generated' = TRUE
    /\ h_exc' = h_exc
    /\ UNCHANGED <<h_payload, h_frags, h_calls, h_out, h_sendFailed>>
    /\ UNCHANGED <<rvars, cvars, nvars, fvars, qvars>>
\* lines 28-42: resolve model and prompt, look the model up
HResolve ==
    /\ h_pc = "start"
    /\ h_model' = ResolveModel(h_payload)
    /\ h_prompt' = ResolvePrompt(h_payload)
    /\ IF ResolveModel(h_payload) \in Registry
       THEN /\ h_pc' = "gen"
            /\ h_generated' = TRUE
            /\ h_exc' = h_exc
       ELSE /\ h_pc' = "except"
            /\ h_generated' = h_generated
            /\ h_exc' = NotFoundText(ResolveModel(h_payload))
    /\ UNCHANGED <<h_payload, h_frags, h_calls, h_out, h_sendFailed>>
    /\ UNCHANGED <<rvars, cvars, nvars, fvars, qvars>>

\* send_response_func(obj): the call either returns (obj is emitted) or raises
HSend(obj, ok) ==
    /\ h_calls' = Append(h_calls, obj)
    /\ h_out' = IF ok THEN Append(h_out, obj) ELSE h_out
    /\ h_sendFailed' = (h_sendFailed \/ ~ok)

\* faulty variant of HChunk: no chunk is sent for the fragment "b"
HChunkDropsFragment ==
    /\ h_pc = "gen"
    /\ Len(h_frags) < MaxFrags
    /\ \E f \in Data, ok \in BOOLEAN :
        /\ h_frags' = Append(h_frags, f)
        /\ IF f = "b"
           THEN UNCHANGED <<h_calls, h_out, h_sendFailed, h_pc, h_exc>>
           ELSE /\ HSend(ChunkMsg(HandlerId, f), ok)
                /\ h_pc' = IF ok THEN "gen" ELSE "except"
                /\ h_exc' = IF ok THEN h_exc ELSE "send failed"
    /\ UNCHANGED <<h_payload, h_model, h_prompt, h_generated>>
    /\ UNCHANGED <<rvars, cvars, nvars, fvars, qvars>>
\* lines 45-48: the processor yields a fragment, one chunk is sent for it
HChunk ==
    /\ h_pc = "gen"
    /\ Len(h_frags) < MaxFrags
    /\ \E f \in Data, ok \in BOOLEAN :
        /\ h_frags' = Append(h_frags, f)
        /\ HSend(ChunkMsg(HandlerId, f), ok)
        /\ h_pc' = IF ok THEN "gen" ELSE "except"
        /\ h_exc' = IF ok THEN h_exc ELSE "send failed"
    /\ UNCHANGED <<h_payload, h_model, h_prompt, h_generated>>
    /\ UNCHANGED <<rvars, cvars, nvars, fvars, qvars>>

\* lines 45, 52: the processor raises while being driven
HProcessorFails ==
    /\ h_pc = "gen"
    /\ h_pc' = "except"
    /\ h_exc' = "processor failure"
    /\ UNCHANGED <<h_payload, h_model, h_prompt, h_frags, h_calls, h_out,
                   h_sendFailed, h_generated>>
    /\ UNCHANGED <<rvars, cvars, nvars, fvars, qvars>>

\* faulty variant of HDone: an exception right after done was sent reaches the
\* except branch, which sends an error as well
HDoneMutant ==
    /\ h_pc = "gen"
    /\ \E ok \in BOOLEAN : HSend(DoneMsg(HandlerId), ok)
    /\ h_pc' = "except"
    /\ h_exc' = "after done"
    /\ UNCHANGED <<h_payload, h_model, h_prompt, h_frags, h_generated>>
    /\ UNCHANGED <<rvars, cvars, nvars, fvars, qvars>>
\* lines 50-51: the processor is exhausted, done is sent
HDone ==
    /\ h_pc = "gen"
    /\ \E ok \in BOOLEAN :
        /\ HSend(DoneMsg(HandlerId), ok)
        /\ h_pc' = IF ok THEN "returned" ELSE "except"
        /\ h_exc' = IF ok THEN h_exc ELSE "send failed"
    /\ UNCHANGED <<h_payload, h_model, h_prompt, h_frags, h_generated>>
    /\ UNCHANGED <<rvars, cvars, nvars, fvars, qvars>>

\* faulty variant of HError: a failed send of the error message is tried again
HErrorRetries ==
    /\ h_pc = "except"
    /\ \E ok \in BOOLEAN :
        /\ HSend(ErrorMsg(HandlerId, h_exc), ok)
        /\ h_pc' = IF ok \/ Len(h_calls) > MaxFrags + 2 THEN "returned" ELSE "except"
    /\ UNCHANGED <<h_payload, h_model, h_prompt, h_frags, h_exc, h_generated>>
    /\ UNCHANGED <<rvars, cvars, nvars, fvars, qvars>>
\* faulty variant of HError: the error message carries a fixed text
HErrorFixedText ==
    /\ h_pc = "except"
    /\ \E ok \in BOOLEAN : HSend(ErrorMsg(HandlerId, "internal error"), ok)
    /\ h_pc' = "returned"
    /\ UNCHANGED <<h_payload, h_model, h_prompt, h_frags, h_exc, h_generated>>
    /\ UNCHANGED <<rvars, cvars, nvars, fvars, qvars>>
\* lines 52-59: one error message is sent, a failure of that send is swallowed
HError ==
    /\ h_pc = "except"
    /\ \E ok \in BOOLEAN : HSend(ErrorMsg(HandlerId, h_exc), ok)
    /\ h_pc' = "returned"
    /\ UNCHANGED <<h_payload, h_model, h_prompt, h_frags, h_exc, h_generated>>
    /\ UNCHANGED <<rvars, cvars, nvars, fvars, qvars>>

\* the handler called with a send_response_func of its own
HNext ==
    \/ HResolve /\ UNCHANGED gvars
    \/ HChunk /\ UNCHANGED gvars
    \/ HProcessorFails /\ UNCHANGED gvars
    \/ HDone /\ UNCHANGED gvars
    \/ HError /\ UNCHANGED gvars

---------------------------------------------------------------------------
\* handle_task

RInit ==
    /\ r_pc = "start"
    /\ r_req \in {[request_id |-> i, payload |-> "p"] : i \in {Absent, "", "r1"}}
    /\ r_conn = "none"
    /\ r_toApp = <<>>
    /\ r_recvd = <<>>
    /\ r_msg = Absent
    /\ r_calls = <<>>
    /\ r_in = <<>>
    /\ r_exc = Absent
    /\ r_end = "none"

\* the other components at rest, with one request
RIdle == RInit /\ r_req.request_id = "r1"

\* faulty variant of NoRequestId: `request_id is None`, which lets "" through
NoRequestIdMutant(req) == req.request_id = Absent
\* line 44: `not request_id` holds for a missing key (None) and for ""
NoRequestId(req) == req.request_id \in {Absent, ""}

\* what the downstream hop may send: chunks, done and error for the request's
\* id, and messages that carry another id
DownMsgs ==
    {ChunkMsg("r1", d) : d \in Data}
    \cup {DoneMsg("r1"), ErrorMsg("r1", "boom"), ChunkMsg("r2", "a"), DoneMsg("r2")}

ProxyErrorText(e) == <<"Proxy Error", e>>

\* faulty variant of RelayStops: only done ends the relay
RelayStopsMutant(m) == m.type = "done"
\* line 88: the relay loop stops after a message of type done or error
RelayStops(m) == m.type \in {"done", "error"}

\* send_msg(stream, m) on the inbound stream: returns, or raises
RSendIn(m, ok) ==
    /\ r_calls' = Append(r_calls, m)
    /\ r_in' = IF ok THEN Append(r_in, m) ELSE r_in

\* lines 42-52: a request without request_id is dropped before a client is made
RStart ==
    /\ r_pc = "start"
    /\ IF NoRequestId(r_req)
       THEN r_pc' = "returned" /\ r_end' = "dropped"
       ELSE r_pc' = "connect" /\ r_end' = r_end
    /\ UNCHANGED <<r_req, r_conn, r_toApp, r_recvd, r_msg, r_calls, r_in, r_exc>>
    /\ UNCHANGED <<hvars, cvars, nvars, xvars>>

\* lines 52, 71-76: the client is made and app_client.connect() is awaited: it
\* returns, after which app_client._stream is the outbound stream, or raises
RConnect ==
    /\ r_pc = "connect"
    /\ \E ok \in BOOLEAN :
        IF ok
        THEN r_pc' = "sendreq" /\ r_conn' = "open" /\ r_exc' = r_exc /\ r_end' = r_end
        ELSE r_pc' = "except" /\ r_conn' = r_conn /\ r_exc' = "connect failed"
             /\ r_end' = "exception"
    /\ UNCHANGED <<r_req, r_toApp, r_recvd, r_msg, r_calls, r_in>>
    /\ UNCHANGED <<hvars, cvars, nvars, xvars>>

\* lines 76-77: the request dict is written to the outbound stream as it is
RSendReq ==
    /\ r_pc = "sendreq"
    /\ \E ok \in BOOLEAN :
        IF ok
        THEN r_pc' = "recv" /\ r_toApp' = Append(r_toApp, r_req) /\ r_exc' = r_exc
             /\ r_end' = r_end
        ELSE r_pc' = "except" /\ r_toApp' = r_toApp /\ r_exc' = "send to app failed"
             /\ r_end' = "exception"
    /\ UNCHANGED <<r_req, r_conn, r_recvd, r_msg, r_calls, r_in>>
    /\ UNCHANGED <<hvars, cvars, nvars, xvars>>

\* line 80: recv_msg(app_stream) returns a message
RRecvMsg ==
    /\ r_pc = "recv"
    /\ Len(r_recvd) < MaxRecv
    /\ \E m \in DownMsgs :
        /\ r_msg' = m
        /\ r_recvd' = Append(r_recvd, m)
    /\ r_pc' = "fwd"
    /\ UNCHANGED <<r_req, r_conn, r_toApp, r_calls, r_in, r_exc, r_end>>
    /\ UNCHANGED <<hvars, cvars, nvars, xvars>>

\* lines 80-83: recv_msg returns None (the app closed the connection): break
RRecvEof ==
    /\ r_pc = "recv"
    /\ r_pc' = "finally"
    /\ r_end' = "eof"
    /\ UNCHANGED <<r_req, r_conn, r_toApp, r_recvd, r_msg, r_calls, r_in, r_exc>>
    /\ UNCHANGED <<hvars, cvars, nvars, xvars>>

\* line 80: recv_msg raises (a transport error on the outbound stream)
RRecvRaises ==
    /\ r_pc = "recv"
    /\ r_pc' = "except"
    /\ r_exc' = "receive failed"
    /\ r_end' = "exception"
    /\ UNCHANGED <<r_req, r_conn, r_toApp, r_recvd, r_msg, r_calls, r_in>>
    /\ UNCHANGED <<hvars, cvars, nvars, xvars>>

\* lines 86-89: msg is forwarded; after done or error the loop ends
RForward ==
    /\ r_pc = "fwd"
    /\ \E ok \in BOOLEAN :
        /\ RSendIn(r_msg, ok)
        /\ IF ~ok
           THEN r_pc' = "except" /\ r_exc' = "send failed" /\ r_end' = "exception"
           ELSE /\ r_exc' = r_exc
                /\ IF RelayStops(r_msg)
                   THEN r_pc' = "finally" /\ r_end' = "terminal"
                   ELSE r_pc' = "recv" /\ r_end' = r_end
    /\ UNCHANGED <<r_req, r_conn, r_toApp, r_recvd, r_msg>>
    /\ UNCHANGED <<hvars, cvars, nvars, xvars>>

\* faulty variant of RSendError: the made-up error message has no request_id
RSendErrorNoId ==
    /\ r_pc = "except"
    /\ \E ok \in BOOLEAN :
        RSendIn(ErrorMsg(Absent, ProxyErrorText(r_exc)), ok)
    /\ r_pc' = "finally"
    /\ UNCHANGED <<r_req, r_conn, r_toApp, r_recvd, r_msg, r_exc, r_end>>
    /\ UNCHANGED <<hvars, cvars, nvars, xvars>>
\* faulty variant of RSendError: a failure of the error send leaves
\* handle_task as an exception
RSendErrorPropagates ==
    /\ r_pc = "except"
    /\ \E ok \in BOOLEAN :
        /\ RSendIn(ErrorMsg(r_req.request_id, ProxyErrorText(r_exc)), ok)
        /\ r_pc' = IF ok THEN "finally" ELSE "raised"
    /\ UNCHANGED <<r_req, r_conn, r_toApp, r_recvd, r_msg, r_exc, r_end>>
    /\ UNCHANGED <<hvars, cvars, nvars, xvars>>
\* lines 93-105: an error message is made up and sent; a failure is swallowed
RSendError ==
    /\ r_pc = "except"
    /\ \E ok \in BOOLEAN :
        RSendIn(ErrorMsg(r_req.request_id, ProxyErrorText(r_exc)), ok)
    /\ r_pc' = "finally"
    /\ UNCHANGED <<r_req, r_conn, r_toApp, r_recvd, r_msg, r_exc, r_end>>
    /\ UNCHANGED <<hvars, cvars, nvars, xvars>>

\* faulty variant of RFinally: the outbound stream is closed only when no
\* exception was handled
RFinallySkipsAfterError ==
    /\ r_pc = "finally"
    /\ r_conn' = IF r_conn = "open" /\ r_exc = Absent THEN "closed" ELSE r_conn
    /\ r_pc' = "returned"
    /\ UNCHANGED <<r_req, r_toApp, r_recvd, r_msg, r_calls, r_in,
                   r_exc, r_end>>
    /\ UNCHANGED <<hvars, cvars, nvars, xvars>>
\* lines 106-110: the outbound stream, if there is one, is closed
RFinally ==
    /\ r_pc = "finally"
    /\ r_conn' = IF r_conn = "open" THEN "closed" ELSE r_conn
    /\ r_pc' = "returned"
    /\ UNCHANGED <<r_req, r_toApp, r_recvd, r_msg, r_calls, r_in,
                   r_exc, r_end>>
    /\ UNCHANGED <<hvars, cvars, nvars, xvars>>

RNext ==
    \/ RStart \/ RConnect \/ RSendReq \/ RRecvMsg \/ RRecvEof \/ RRecvRaises
    \/ RForward \/ RSendError \/ RFinally

---------------------------------------------------------------------------
\* submit_task

CInit ==
    /\ c_pc = "start"
    /\ c_id = Absent
    /\ c_payload \in {"p"}
    /\ c_sent = <<>>
    /\ c_cur = <<>>
    /\ c_hist = <<>>
    /\ c_yield = <<>>
    /\ c_end = "none"
    /\ c_outcome = "running"
    /\ c_status = <<>>

\* what uuid.uuid4() may return
UUIDs == {"u1", "u2"}

\* lines 42-50: the JSON-RPC envelope of the request
RpcReq(rid, payload) ==
    [jsonrpc |-> "2.0", method |-> "submit_task",
     params |-> [task_type |-> "generic", payload |-> payload], id |-> rid]

\* A line of the streamed response: empty, not JSON, or a JSON object with an
\* id, possibly an error field, and a result with a type and data.
Line(form, rid, err, type, data) ==
    [form |-> form, id |-> rid, err |-> err, type |-> type, data |-> data]

EmptyLine == Line("empty", Absent, FALSE, Absent, Absent)
BadLine == Line("bad", Absent, FALSE, Absent, Absent)
ChunkLine(rid, d) == Line("obj", rid, FALSE, "chunk", d)
DoneLine(rid) == Line("obj", rid, FALSE, "done", Absent)
ErrorLine(rid) == Line("obj", rid, FALSE, "error", Absent)
RpcErrorLine(rid) == Line("obj", rid, TRUE, Absent, Absent)
OtherLine(rid) == Line("obj", rid, FALSE, "progress", Absent)

\* the lines an attempt may receive: for the request's id, for another id,
\* and lines that are no message
Lines(rid) ==
    {ChunkLine(rid, d) : d \in Data}
    \cup {DoneLine(rid), ErrorLine(rid), RpcErrorLine(rid), OtherLine(rid)}
    \cup UNION {{ChunkLine(o, "a"), DoneLine(o), ErrorLine(o)} : o \in UUIDs \ {rid}}
    \cup {EmptyLine, BadLine}

\* faulty variant of LineAction: the id is compared for chunks only, so a done
\* or error of another request ends the sequence
LineActionMutant(l, rid) ==
    IF l.form # "obj" THEN "skip"
    ELSE IF l.err THEN "rpcerror"
    ELSE IF l.type = "chunk" THEN (IF l.id # rid THEN "skip" ELSE "yield")
    ELSE IF l.type = "done" THEN "done"
    ELSE IF l.type = "error" THEN "error"
    ELSE "skip"
\* faulty variant of LineAction: an error result is logged and the loop reads on
LineActionReadsOn(l, rid) ==
    IF l.form # "obj" THEN "skip"
    ELSE IF l.id # rid THEN "skip"
    ELSE IF l.err THEN "rpcerror"
    ELSE IF l.type = "chunk" THEN "yield"
    ELSE IF l.type = "done" THEN "done"
    ELSE "skip"
\* faulty variant of LineAction: done and error are logged and the loop
\* reads on
LineActionNeverEnds(l, rid) ==
    IF l.form # "obj" THEN "skip"
    ELSE IF l.id # rid THEN "skip"
    ELSE IF l.err THEN "skip"
    ELSE IF l.type = "chunk" THEN "yield"
    ELSE "skip"
\* faulty variant of LineAction: a result of unknown type is taken as an error
LineActionEndsOnUnknown(l, rid) ==
    IF l.form = "empty" THEN "skip"
    ELSE IF l.form = "bad" THEN "skip"
    ELSE IF l.id # rid THEN "skip"
    ELSE IF l.err THEN "rpcerror"
    ELSE IF l.type = "chunk" THEN "yield"
    ELSE IF l.type = "done" THEN "done"
    ELSE "error"
\* lines 66-96: what the loop body does with one line
LineAction(l, rid) ==
    IF l.form = "empty" THEN "skip"
    ELSE IF l.form = "bad" THEN "skip"
    ELSE IF l.id # rid THEN "skip"
    ELSE IF l.err THEN "rpcerror"
    ELSE IF l.type = "chunk" THEN "yield"
    ELSE IF l.type = "done" THEN "done"
    ELSE IF l.type = "error" THEN "error"
    ELSE "skip"

\* faulty variant of AttemptIds: uuid4() is called inside the loop
AttemptIdsMutant(cur) == UUIDs
\* lines 41-52: request_id is assigned before the loop; an attempt uses it
AttemptIds(cur) == {cur}

\* faulty variant of Yield: a resubmission skips the positions already yielded
YieldMutant(yielded, k, d) == IF k <= Len(yielded) THEN yielded ELSE Append(yielded, d)
\* line 88: yield result["data"]; k is the position of the chunk in its attempt
Yield(yielded, k, d) == Append(yielded, d)

\* the data of the chunks among the lines s that carry the id rid
RECURSIVE MatchingChunks(_, _)
MatchingChunks(s, rid) ==
    IF s = <<>> THEN <<>>
    ELSE (IF s[1].form = "obj" /\ s[1].id = rid /\ ~s[1].err /\ s[1].type = "chunk"
          THEN <<s[1].data>> ELSE <<>>) \o MatchingChunks(Tail(s), rid)

\* a line that is a done or an error for the id rid
MatchingTerminal(l, rid) ==
    l.form = "obj" /\ l.id = rid /\ (l.err \/ l.type \in {"done", "error"})

\* line 41: the request id is generated
CStart ==
    /\ c_pc = "start"
    /\ c_id' \in UUIDs
    /\ c_pc' = "attempt"
    /\ UNCHANGED <<c_payload, c_sent, c_cur, c_hist, c_yield, c_end, c_outcome, c_status>>
    /\ UNCHANGED <<hvars, rvars, nvars, xvars>>

\* faulty variant of AfterFailedAttempt: the loop gives up after two attempts
AfterFailedAttemptMutant(n, pc) == IF n >= 2 THEN "returned" ELSE pc
\* lines 52, 97-105: `while True`: after the n-th attempt has failed the loop
\* goes on at pc, whatever n is
AfterFailedAttempt(n, pc) == pc

\* faulty variant of CPost: a status other than 200 is retried after the wait
CPostRetriesStatus ==
    /\ c_pc = "attempt"
    /\ Len(c_sent) < MaxAttempts
    /\ \E rid \in AttemptIds(c_id), res \in {"200", "other", "unread", "none"} :
        /\ c_id' = rid
        /\ c_sent' = Append(c_sent, RpcReq(rid, c_payload))
        /\ c_status' = Append(c_status, res)
        /\ c_cur' = <<>>
        /\ CASE res = "200" ->
                    c_pc' = "lines" /\ c_end' = c_end /\ c_outcome' = c_outcome
                    /\ c_hist' = c_hist
             [] res = "other" ->
                    c_pc' = "sleep" /\ c_end' = c_end /\ c_outcome' = c_outcome
                    /\ c_hist' = c_hist
             [] res \in {"unread", "none"} ->
                    c_pc' = AfterFailedAttempt(Len(c_sent) + 1, "sleep")
                    /\ c_end' = c_end /\ c_outcome' = c_outcome
                    /\ c_hist' = Append(c_hist, <<>>)
    /\ UNCHANGED <<c_payload, c_yield>>
    /\ UNCHANGED <<hvars, rvars, nvars, xvars>>
\* lines 52-63, 101-105: POST rpc_req. The response has status 200; or
\* another status, whose body is read and logged before the generator returns
\* ("other"); or another status whose body cannot be read because aread raises
\* httpx.RequestError ("unread"); or the request itself fails ("none"). Both
\* failures reach the except branch, which waits and goes round the loop.
CPost ==
    /\ c_pc = "attempt"
    /\ Len(c_sent) < MaxAttempts
    /\ \E rid \in AttemptIds(c_id), res \in {"200", "other", "unread", "none"} :
        /\ c_id' = rid
        /\ c_sent' = Append(c_sent, RpcReq(rid, c_payload))
        /\ c_status' = Append(c_status, res)
        /\ c_cur' = <<>>
        /\ CASE res = "200" ->
                    c_pc' = "lines" /\ c_end' = c_end /\ c_outcome' = c_outcome
                    /\ c_hist' = c_hist
             [] res = "other" ->
                    c_pc' = "returned" /\ c_end' = "status" /\ c_outcome' = "end"
                    /\ c_hist' = c_hist
             [] res \in {"unread", "none"} ->
                    c_pc' = AfterFailedAttempt(Len(c_sent) + 1, "sleep")
                    /\ c_end' = c_end /\ c_outcome' = c_outcome
                    /\ c_hist' = Append(c_hist, <<>>)
    /\ UNCHANGED <<c_payload, c_yield>>
    /\ UNCHANGED <<hvars, rvars, nvars, xvars>>

\* faulty variant of CLine: after an error message the loop makes a new attempt
CLineRetriesError ==
    /\ c_pc = "lines"
    /\ Len(c_cur) < MaxLines
    /\ \E l \in Lines(c_id) :
        LET act == LineAction(l, c_id) IN
        /\ c_cur' = Append(c_cur, l)
        /\ c_yield' = IF act = "yield"
                      THEN Yield(c_yield, Len(MatchingChunks(c_cur, c_id)) + 1, l.data)
                      ELSE c_yield
        /\ IF act = "done"
           THEN c_pc' = "returned" /\ c_end' = act /\ c_outcome' = "end"
           ELSE IF act \in {"error", "rpcerror"}
           THEN c_pc' = "attempt" /\ c_end' = act /\ c_outcome' = c_outcome
           ELSE c_pc' = c_pc /\ c_end' = c_end /\ c_outcome' = c_outcome
    /\ UNCHANGED <<c_id, c_payload, c_sent, c_hist, c_status>>
    /\ UNCHANGED <<hvars, rvars, nvars, xvars>>
\* lines 65-96: one line of the response is read and handled
CLine ==
    /\ c_pc = "lines"
    /\ Len(c_cur) < MaxLines
    /\ \E l \in Lines(c_id) :
        LET act == LineAction(l, c_id) IN
        /\ c_cur' = Append(c_cur, l)
        /\ c_yield' = IF act = "yield"
                      THEN Yield(c_yield, Len(MatchingChunks(c_cur, c_id)) + 1, l.data)
                      ELSE c_yield
        /\ IF act \in {"done", "error", "rpcerror"}
           THEN c_pc' = "returned" /\ c_end' = act /\ c_outcome' = "end"
           ELSE c_pc' = c_pc /\ c_end' = c_end /\ c_outcome' = c_outcome
    /\ UNCHANGED <<c_id, c_payload, c_sent, c_hist, c_status>>
    /\ UNCHANGED <<hvars, rvars, nvars, xvars>>

\* lines 65, 97-100: the response ends without done or error; the loop goes
\* round at once
CEndOfStream ==
    /\ c_pc = "lines"
    /\ c_pc' = AfterFailedAttempt(Len(c_sent), "attempt")
    /\ c_hist' = Append(c_hist, MatchingChunks(c_cur, c_id))
    /\ c_cur' = <<>>
    /\ UNCHANGED <<c_id, c_payload, c_sent, c_yield, c_end, c_outcome, c_status>>
    /\ UNCHANGED <<hvars, rvars, nvars, xvars>>

\* lines 65, 101-105: reading raises httpx.RequestError; sleep, then go round
CTransportError ==
    /\ c_pc = "lines"
    /\ c_pc' = AfterFailedAttempt(Len(c_sent), "sleep")
    /\ c_hist' = Append(c_hist, MatchingChunks(c_cur, c_id))
    /\ c_cur' = <<>>
    /\ UNCHANGED <<c_id, c_payload, c_sent, c_yield, c_end, c_outcome, c_status>>
    /\ UNCHANGED <<hvars, rvars, nvars, xvars>>

\* line 105: trio.sleep(RETRY_INTERVAL) is over
CSleepOver ==
    /\ c_pc = "sleep"
    /\ c_pc' = "attempt"
    /\ UNCHANGED <<c_id, c_payload, c_sent, c_cur, c_hist, c_yield, c_end, c_outcome, c_status>>
    /\ UNCHANGED <<hvars, rvars, nvars, xvars>>

CNext ==
    \/ CStart \/ CPost \/ CLine \/ CEndOfStream \/ CTransportError \/ CSleepOver

\* line 65: the line read is a done or error (or JSON-RPC error) for the
\* request's id
CReadTerminal ==
    /\ CLine
    /\ \E i \in 1..Len(c_cur') : MatchingTerminal(c_cur'[i], c_id)

\* the steps submit_task takes by itself are taken when they can be: the id
\* is generated, the request is posted, the sleep ends; and an attempt
\* whose stream is read again and again is given a terminal message
CFairness ==
    /\ WF_vars(CStart)
    /\ WF_vars(CPost)
    /\ WF_vars(CSleepOver)
    /\ SF_vars(CReadTerminal)

---------------------------------------------------------------------------
\* handle_connection: one inbound stream, one handle_task child per request

\* request_ids of the requests the peer sends on the connection, in order
ConnReqs == <<"r1", "r2">>

Range(s) == {s[i] : i \in 1..Len(s)}
ConnIds == Range(ConnReqs)

\* no connection was made
NoConn == [made |-> FALSE, open |-> FALSE, users |-> {}, late |-> FALSE]

\* a child that has not been started
TaskIdle ==
    [pc |-> "idle", got |-> 0, msg |-> Absent, exc |-> Absent, fault |-> FALSE,
     conn |-> Absent]

NInit ==
    /\ s_pc = "reading"
    /\ s_why = "none"
    /\ s_read = <<>>
    /\ t_task = [id \in ConnIds |-> TaskIdle]
    /\ w_holder = Absent
    /\ w_wire = <<>>
    /\ w_obs = <<>>
    /\ o_conns = [id \in ConnIds |-> NoConn]

\* framing.py line 20: a frame is the 4-byte length followed by the payload;
\* send_all may hand it to the socket in pieces, split here after the length
LenUnit(m) == [part |-> "len", msg |-> m]
BodyUnit(m) == [part |-> "body", msg |-> m]

\* faulty variant of SendMsgStart: the length goes out in a send_all of its
\* own, so the stream is free again before the payload is written
SendMsgSplit(id, m) ==
    /\ w_wire' = Append(w_wire, LenUnit(m))
    /\ w_holder' = Absent
\* framing.py lines 18-20: one send_all for the whole frame; the caller is
\* inside send_all (and may be suspended there) until the last byte is out
SendMsgStart(id, m) ==
    /\ w_wire' = Append(w_wire, LenUnit(m))
    /\ w_holder' = id

\* the rest of the frame is written and send_all returns
SendMsgEnd(m) ==
    /\ w_wire' = Append(w_wire, BodyUnit(m))
    /\ w_holder' = Absent

\* framing.py lines 23-28: 4 bytes are read as the length, then that many
\* bytes as the payload, whatever they are
Garbage == Msg(Absent, "garbage", Absent, Absent)
Decode(h, b) ==
    IF h.part = "len" /\ b.part = "body" /\ b.msg = h.msg THEN h.msg ELSE Garbage

\* messages the downstream hop may send to the child of request id
ConnDown(id) == {ChunkMsg(id, "a"), DoneMsg(id), ErrorMsg(id, "app error")}

\* lines 28-31: a request is read and a child is started for it
SRead(id) ==
    /\ s_pc = "reading"
    /\ Len(s_read) < Len(ConnReqs)
    /\ id = ConnReqs[Len(s_read) + 1]
    /\ s_read' = Append(s_read, id)
    /\ t_task' = [t_task EXCEPT ![id].pc = "connect"]
    /\ UNCHANGED <<s_pc, s_why, w_holder, w_wire, w_obs, o_conns>>
    /\ UNCHANGED <<hvars, rvars, cvars, xvars>>

\* lines 29-37: recv_msg returns None (end of stream) or raises; the loop ends
SReadEnds ==
    /\ s_pc = "reading"
    /\ \E why \in {"eof", "error"} : s_why' = why
    /\ s_pc' = "waiting"
    /\ UNCHANGED <<s_read, t_task, w_holder, w_wire, w_obs, o_conns>>
    /\ UNCHANGED <<hvars, rvars, cvars, xvars>>

\* faulty variant of SReturn: returns as soon as the read loop has ended
SReturnWithoutWaiting ==
    /\ s_pc = "waiting"
    /\ s_pc' = "returned"
    /\ UNCHANGED <<s_why, s_read, t_task, w_holder, w_wire, w_obs, o_conns>>
    /\ UNCHANGED <<hvars, rvars, cvars, xvars>>
\* line 25: the nursery block is left once every child has completed
SReturn ==
    /\ s_pc = "waiting"
    /\ \A id \in Range(s_read) : t_task[id].pc = "done"
    /\ s_pc' = "returned"
    /\ UNCHANGED <<s_why, s_read, t_task, w_holder, w_wire, w_obs, o_conns>>
    /\ UNCHANGED <<hvars, rvars, cvars, xvars>>

\* a connection just made by the child of request id, which alone has used it
NewConn(id) == [made |-> TRUE, open |-> TRUE, users |-> {id}, late |-> FALSE]

\* the child of request id sends or receives on the connection made by k
UseConn(k, id) ==
    [o_conns EXCEPT ![k] = [@ EXCEPT !.users = @ \cup {id},
                                     !.late = @ \/ ~o_conns[k].open]]

\* the child whose connection the pool holds, if there is one
Pooled == {k \in ConnIds : o_conns[k].made}

\* faulty variant of TConnect: the first connection made is kept in a pool
\* and used for every later request
TConnectPooled(id) ==
    /\ t_task[id].pc = "connect"
    /\ \E res \in {"ok", "sendfail", "noconn"} :
        IF res = "noconn"
        THEN /\ t_task' = [t_task EXCEPT ![id] =
                    [@ EXCEPT !.pc = "except", !.exc = "connect failed", !.fault = TRUE]]
             /\ o_conns' = o_conns
        ELSE \E k \in (IF Pooled = {} THEN {id} ELSE Pooled) :
             /\ o_conns' = IF Pooled = {} THEN [o_conns EXCEPT ![id] = NewConn(id)]
                           ELSE UseConn(k, id)
             /\ t_task' = [t_task EXCEPT ![id] =
                    IF res = "ok" THEN [@ EXCEPT !.pc = "recv", !.conn = k]
                    ELSE [@ EXCEPT !.pc = "except", !.exc = "connect failed",
                                   !.fault = TRUE, !.conn = k]]
    /\ UNCHANGED <<s_pc, s_why, s_read, w_holder, w_wire, w_obs>>
    /\ UNCHANGED <<hvars, rvars, cvars, xvars>>
\* lines 52, 71-77: a client of its own is made and connected, and the
\* request is sent on its stream; connect may raise (no stream), and the send
\* of the request may raise (the stream exists and is closed at the end)
TConnect(id) ==
    /\ t_task[id].pc = "connect"
    /\ \E res \in {"ok", "sendfail", "noconn"} :
        IF res = "noconn"
        THEN /\ t_task' = [t_task EXCEPT ![id] =
                    [@ EXCEPT !.pc = "except", !.exc = "connect failed", !.fault = TRUE]]
             /\ o_conns' = o_conns
        ELSE /\ o_conns' = [o_conns EXCEPT ![id] = NewConn(id)]
             /\ t_task' = [t_task EXCEPT ![id] =
                    IF res = "ok" THEN [@ EXCEPT !.pc = "recv", !.conn = id]
                    ELSE [@ EXCEPT !.pc = "except", !.exc = "connect failed",
                                   !.fault = TRUE, !.conn = id]]
    /\ UNCHANGED <<s_pc, s_why, s_read, w_holder, w_wire, w_obs>>
    /\ UNCHANGED <<hvars, rvars, cvars, xvars>>

\* line 80: a message arrives from the downstream hop
TRecvMsg(id) ==
    /\ t_task[id].pc = "recv"
    /\ t_task[id].got < MaxRecv
    /\ \E m \in ConnDown(id) :
        t_task' = [t_task EXCEPT ![id] =
            [@ EXCEPT !.pc = "send", !.msg = m, !.got = @ + 1]]
    /\ o_conns' = UseConn(t_task[id].conn, id)
    /\ UNCHANGED <<s_pc, s_why, s_read, w_holder, w_wire, w_obs>>
    /\ UNCHANGED <<hvars, rvars, cvars, xvars>>

\* lines 80-83: the downstream hop closed the stream; the loop is left
TRecvEof(id) ==
    /\ t_task[id].pc = "recv"
    /\ t_task' = [t_task EXCEPT ![id] = [@ EXCEPT !.pc = "finally", !.fault = TRUE]]
    /\ o_conns' = UseConn(t_task[id].conn, id)
    /\ UNCHANGED <<s_pc, s_why, s_read, w_holder, w_wire, w_obs>>
    /\ UNCHANGED <<hvars, rvars, cvars, xvars>>

\* lines 80, 93: recv_msg on the outbound stream raises
TRecvRaises(id) ==
    /\ t_task[id].pc = "recv"
    /\ t_task' = [t_task EXCEPT ![id] =
            [@ EXCEPT !.pc = "except", !.exc = "recv failed", !.fault = TRUE]]
    /\ o_conns' = UseConn(t_task[id].conn, id)
    /\ UNCHANGED <<s_pc, s_why, s_read, w_holder, w_wire, w_obs>>
    /\ UNCHANGED <<hvars, rvars, cvars, xvars>>

\* line 86: send_msg(stream, msg) enters send_all and writes
TSendStart(id) ==
    /\ t_task[id].pc = "send"
    /\ w_holder = Absent
    /\ SendMsgStart(id, t_task[id].msg)
    /\ t_task' = [t_task EXCEPT ![id].pc = "sending"]
    /\ UNCHANGED <<s_pc, s_why, s_read, w_obs, o_conns>>
    /\ UNCHANGED <<hvars, rvars, cvars, xvars>>

\* line 86: another child is inside send_all of the same stream, so this
\* send_all raises trio.BusyResourceError and writes nothing
TSendBusy(id) ==
    /\ t_task[id].pc = "send"
    /\ w_holder # Absent
    /\ t_task' = [t_task EXCEPT ![id] = [@ EXCEPT !.pc = "except", !.exc = "busy"]]
    /\ UNCHANGED <<s_pc, s_why, s_read, w_holder, w_wire, w_obs, o_conns>>
    /\ UNCHANGED <<hvars, rvars, cvars, xvars>>

\* line 86: the inbound transport fails, send_all raises and writes nothing
TSendBroken(id) ==
    /\ t_task[id].pc = "send"
    /\ w_holder = Absent
    /\ t_task' = [t_task EXCEPT ![id] =
            [@ EXCEPT !.pc = "except", !.exc = "send failed", !.fault = TRUE]]
    /\ UNCHANGED <<s_pc, s_why, s_read, w_holder, w_wire, w_obs, o_conns>>
    /\ UNCHANGED <<hvars, rvars, cvars, xvars>>

\* lines 86-89: send_all returns; the loop stops after a terminal message
TSendEnd(id) ==
    /\ t_task[id].pc = "sending"
    /\ SendMsgEnd(t_task[id].msg)
    /\ t_task' = [t_task EXCEPT ![id].pc =
            IF RelayStops(t_task[id].msg) THEN "finally" ELSE "recv"]
    /\ UNCHANGED <<s_pc, s_why, s_read, w_obs, o_conns>>
    /\ UNCHANGED <<hvars, rvars, cvars, xvars>>

\* lines 93-103: the synthesized error message enters send_all
TErrStart(id) ==
    /\ t_task[id].pc = "except"
    /\ w_holder = Absent
    /\ LET m == ErrorMsg(id, ProxyErrorText(t_task[id].exc)) IN
        /\ SendMsgStart(id, m)
        /\ t_task' = [t_task EXCEPT ![id] = [@ EXCEPT !.pc = "errsending", !.msg = m]]
    /\ UNCHANGED <<s_pc, s_why, s_read, w_obs, o_conns>>
    /\ UNCHANGED <<hvars, rvars, cvars, xvars>>

\* lines 95-105: the send of the error message raises BusyResourceError
\* because another child is inside send_all; the exception is swallowed
TErrBusy(id) ==
    /\ t_task[id].pc = "except"
    /\ w_holder # Absent
    /\ t_task' = [t_task EXCEPT ![id].pc = "finally"]
    /\ UNCHANGED <<s_pc, s_why, s_read, w_holder, w_wire, w_obs, o_conns>>
    /\ UNCHANGED <<hvars, rvars, cvars, xvars>>

\* lines 95-105: the inbound transport fails; the exception is swallowed
TErrBroken(id) ==
    /\ t_task[id].pc = "except"
    /\ w_holder = Absent
    /\ t_task' = [t_task EXCEPT ![id] = [@ EXCEPT !.pc = "finally", !.fault = TRUE]]
    /\ UNCHANGED <<s_pc, s_why, s_read, w_holder, w_wire, w_obs, o_conns>>
    /\ UNCHANGED <<hvars, rvars, cvars, xvars>>

\* lines 96-103: send_all of the error message returns
TErrEnd(id) ==
    /\ t_task[id].pc = "errsending"
    /\ SendMsgEnd(t_task[id].msg)
    /\ t_task' = [t_task EXCEPT ![id].pc = "finally"]
    /\ UNCHANGED <<s_pc, s_why, s_read, w_obs, o_conns>>
    /\ UNCHANGED <<hvars, rvars, cvars, xvars>>

\* lines 106-110: the outbound stream is closed and the child completes
TFinally(id) ==
    /\ t_task[id].pc = "finally"
    /\ t_task' = [t_task EXCEPT ![id].pc = "done"]
    /\ o_conns' = IF t_task[id].conn = Absent THEN o_conns
                  ELSE [o_conns EXCEPT ![t_task[id].conn].open = FALSE]
    /\ UNCHANGED <<s_pc, s_why, s_read, w_holder, w_wire, w_obs>>
    /\ UNCHANGED <<hvars, rvars, cvars, xvars>>

\* framing.py lines 23-28, at the peer: the next 4 + size bytes are there
\* and recv_msg returns what they decode to
WRecvMsg ==
    /\ Len(w_wire) >= 2 * Len(w_obs) + 2
    /\ w_obs' = Append(w_obs, Decode(w_wire[2 * Len(w_obs) + 1],
                                      w_wire[2 * Len(w_obs) + 2]))
    /\ UNCHANGED <<s_pc, s_why, s_read, t_task, w_holder, w_wire, o_conns>>
    /\ UNCHANGED <<hvars, rvars, cvars, xvars>>

NNext ==
    \/ \E id \in ConnIds : SRead(id)
    \/ SReadEnds
    \/ SReturn
    \/ \E id \in ConnIds : TConnect(id)
    \/ \E id \in ConnIds : TRecvMsg(id)
    \/ \E id \in ConnIds : TRecvEof(id)
    \/ \E id \in ConnIds : TRecvRaises(id)
    \/ \E id \in ConnIds : TSendStart(id)
    \/ \E id \in ConnIds : TSendBusy(id)
    \/ \E id \in ConnIds : TSendBroken(id)
    \/ \E id \in ConnIds : TSendEnd(id)
    \/ \E id \in ConnIds : TErrStart(id)
    \/ \E id \in ConnIds : TErrBusy(id)
    \/ \E id \in ConnIds : TErrBroken(id)
    \/ \E id \in ConnIds : TErrEnd(id)
    \/ \E id \in ConnIds : TFinally(id)
    \/ WRecvMsg

---------------------------------------------------------------------------
\* framing.py: send_msg writes one frame, recv_msg reads it back in pieces

\* Python values, tagged by their type. A string is the sequence of its code
\* points; an integer that does not fit 64 bits is given by its base-256
\* digits; a map is the sequence of its (key, value) pairs.
StrV(s) == [t |-> "str", v |-> s]
IntV(n) == [t |-> "int", v |-> n]
BigV(digits) == [t |-> "bigint", v |-> digits]
BoolV(b) == [t |-> "bool", v |-> b]
FloatV(f) == [t |-> "float", v |-> f]
ListV(items) == [t |-> "list", v |-> items]
MapV(pairs) == [t |-> "map", v |-> pairs]

\* "", "a" and "éa"
Strs == {<<>>, <<97>>, <<233, 97>>}

\* integers at the edges of the msgpack formats, and 2^64
Ints == {0, 127, 128, 255, 256, 65535, 65536, -1, -32, -33, -128, -129}
TwoTo64 == BigV(<<1, 0, 0, 0, 0, 0, 0, 0, 0>>)

Leaves ==
    {StrV(s) : s \in Strs} \cup {IntV(n) : n \in Ints} \cup {TwoTo64}
    \cup {BoolV(b) : b \in BOOLEAN} \cup {FloatV(f) : f \in {"1.5", "nan"}}

\* the messages given to send_msg: maps with string keys whose values are
\* leaves, lists and nested maps
FMsgs ==
    {MapV(<<>>)}
    \cup {MapV(<< <<(<<107>>), x>> >>) : x \in Leaves}
    \cup {MapV(<< <<(<<107>>), ListV(<<x, y>>)>>, <<(<<233>>), MapV(<< <<(<<97>>), y>> >>)>> >>) :
            x \in {StrV(<<233, 97>>), IntV(256)},
            y \in {BoolV(TRUE), IntV(-33), StrV(<<>>), TwoTo64, FloatV("nan")}}

\* faulty variant of StructPackI: the length in little-endian byte order
StructPackLittle(n) ==
    <<n % 256, (n \div 256) % 256, (n \div 65536) % 256, (n \div 16777216) % 256>>
\* line 20: struct.pack("!I", n), 4 bytes, most significant first
StructPackI(n) ==
    <<(n \div 16777216) % 256, (n \div 65536) % 256, (n \div 256) % 256, n % 256>>

\* faulty variant of StructUnpackI: the length is read in little-endian order
StructUnpackLittle(b) == ((b[4] * 256 + b[3]) * 256 + b[2]) * 256 + b[1]
\* line 26: struct.unpack("!I", header)[0]
StructUnpackI(b) == ((b[1] * 256 + b[2]) * 256 + b[3]) * 256 + b[4]

\* the UTF-8 bytes of a string of code points below 2048
RECURSIVE Utf8(_)
Utf8(s) ==
    IF s = <<>> THEN <<>>
    ELSE (IF s[1] < 128 THEN <<s[1]>>
          ELSE <<192 + (s[1] \div 64), 128 + (s[1] % 64)>>) \o Utf8(Tail(s))

RECURSIVE Utf8Decode(_)
Utf8Decode(b) ==
    IF b = <<>> THEN <<>>
    ELSE IF b[1] < 128 THEN <<b[1]>> \o Utf8Decode(Tail(b))
    ELSE <<(b[1] - 192) * 64 + (b[2] - 128)>> \o Utf8Decode(Tail(Tail(b)))

\* the 8 bytes of a double
FloatBits(f) ==
    IF f = "nan" THEN <<127, 248, 0, 0, 0, 0, 0, 0>> ELSE <<63, 248, 0, 0, 0, 0, 0, 0>>
FloatOfBits(b) == IF b[1] = 127 THEN "nan" ELSE "1.5"

\* line 19: what msgpack.packb accepts; an integer outside 64 bits makes it
\* raise OverflowError
RECURSIVE Packable(_)
Packable(x) ==
    CASE x.t = "bigint" -> FALSE
      [] x.t = "list" -> \A i \in 1..Len(x.v) : Packable(x.v[i])
      [] x.t = "map" -> \A i \in 1..Len(x.v) : Packable(x.v[i][2])
      [] OTHER -> TRUE

\* line 19: msgpack.packb(obj, use_bin_type=True), the smallest format for
\* every value
RECURSIVE Packb(_), PackAll(_), PackPairs(_)
Packb(x) ==
    CASE x.t = "str" ->
            (IF Len(Utf8(x.v)) < 32 THEN <<160 + Len(Utf8(x.v))>>
             ELSE <<217, Len(Utf8(x.v))>>) \o Utf8(x.v)
      [] x.t = "int" ->
            (IF x.v >= 0
             THEN (IF x.v < 128 THEN <<x.v>>
                   ELSE IF x.v < 256 THEN <<204, x.v>>
                   ELSE IF x.v < 65536 THEN <<205, x.v \div 256, x.v % 256>>
                   ELSE <<206>> \o StructPackI(x.v))
             ELSE (IF x.v >= -32 THEN <<256 + x.v>>
                   ELSE IF x.v >= -128 THEN <<208, 256 + x.v>>
                   ELSE <<209, (65536 + x.v) \div 256, (65536 + x.v) % 256>>))
      [] x.t = "bool" -> (IF x.v THEN <<195>> ELSE <<194>>)
      [] x.t = "float" -> <<203>> \o FloatBits(x.v)
      [] x.t = "list" -> <<144 + Len(x.v)>> \o PackAll(x.v)
      [] x.t = "map" -> <<128 + Len(x.v)>> \o PackPairs(x.v)
PackAll(items) ==
    IF items = <<>> THEN <<>> ELSE Packb(items[1]) \o PackAll(Tail(items))
PackPairs(pairs) ==
    IF pairs = <<>> THEN <<>>
    ELSE Packb(StrV(pairs[1][1])) \o Packb(pairs[1][2]) \o PackPairs(Tail(pairs))

\* line 28: msgpack.unpackb(payload, raw=False), reading at position i; the
\* result is the value and the position after it
RECURSIVE UnpackAt(_, _), UnpackAll(_, _, _), UnpackPairs(_, _, _)
UnpackAt(b, i) ==
    LET c == b[i] IN
    CASE c < 128 -> [val |-> IntV(c), next |-> i + 1]
      [] c >= 128 /\ c < 144 ->
            LET r == UnpackPairs(b, i + 1, c - 128)
            IN [val |-> MapV(r.val), next |-> r.next]
      [] c >= 144 /\ c < 160 ->
            LET r == UnpackAll(b, i + 1, c - 144)
            IN [val |-> ListV(r.val), next |-> r.next]
      [] c >= 160 /\ c < 192 ->
            [val |-> StrV(Utf8Decode(SubSeq(b, i + 1, i + c - 160))),
             next |-> i + 1 + c - 160]
      [] c = 194 -> [val |-> BoolV(FALSE), next |-> i + 1]
      [] c = 195 -> [val |-> BoolV(TRUE), next |-> i + 1]
      [] c = 203 -> [val |-> FloatV(FloatOfBits(SubSeq(b, i + 1, i + 8))), next |-> i + 9]
      [] c = 204 -> [val |-> IntV(b[i + 1]), next |-> i + 2]
      [] c = 205 -> [val |-> IntV(b[i + 1] * 256 + b[i + 2]), next |-> i + 3]
      [] c = 206 -> [val |-> IntV(StructUnpackI(SubSeq(b, i + 1, i + 4))), next |-> i + 5]
      [] c = 208 -> [val |-> IntV(b[i + 1] - 256), next |-> i + 2]
      [] c = 209 -> [val |-> IntV(b[i + 1] * 256 + b[i + 2] - 65536), next |-> i + 3]
      [] c = 217 ->
            [val |-> StrV(Utf8Decode(SubSeq(b, i + 2, i + 1 + b[i + 1]))),
             next |-> i + 2 + b[i + 1]]
      [] c >= 224 -> [val |-> IntV(c - 256), next |-> i + 1]
UnpackAll(b, i, n) ==
    IF n = 0 THEN [val |-> <<>>, next |-> i]
    ELSE LET x == UnpackAt(b, i)
             r == UnpackAll(b, x.next, n - 1)
         IN [val |-> <<x.val>> \o r.val, next |-> r.next]
UnpackPairs(b, i, n) ==
    IF n = 0 THEN [val |-> <<>>, next |-> i]
    ELSE LET k == UnpackAt(b, i)
             x == UnpackAt(b, k.next)
             r == UnpackPairs(b, x.next, n - 1)
         IN [val |-> << <<k.val.v, x.val>> >> \o r.val, next |-> r.next]

Unpackb(b) == UnpackAt(b, 1).val

\* what recv_msg has done
Running == [kind |-> "running", val |-> MapV(<<>>)]
Returned(x) == [kind |-> "msg", val |-> x]
ReturnedNone == [kind |-> "none", val |-> MapV(<<>>)]
Raised == [kind |-> "raised", val |-> MapV(<<>>)]

FInit ==
    /\ f_pc = "send"
    /\ f_msg \in FMsgs
    /\ f_wire = <<>>
    /\ f_cut = 0
    /\ f_event = "eof"
    /\ f_pos = 0
    /\ f_buf = <<>>
    /\ f_size = 0
    /\ f_ret = Running

FIdle == FInit /\ f_msg = MapV(<<>>)

\* lines 18-20: the object is packed and the frame is written in one
\* send_all; packb may raise, and then nothing is written. The stream then
\* delivers the frame, or a part of it before it ends or fails.
FSendMsg ==
    /\ f_pc = "send"
    /\ IF Packable(f_msg)
       THEN /\ f_wire' = StructPackI(Len(Packb(f_msg))) \o Packb(f_msg)
            /\ f_pc' = "header"
            /\ f_cut' \in 0..Len(f_wire')
            /\ f_event' \in {"eof", "error"}
       ELSE /\ f_pc' = "sendraised"
            /\ UNCHANGED <<f_wire, f_cut, f_event>>
    /\ UNCHANGED <<f_msg, f_pos, f_buf, f_size, f_ret>>
    /\ UNCHANGED <<hvars, rvars, cvars, nvars, gvars, qvars>>

\* how many bytes the receive_exactly call in progress still needs
Need == (IF f_pc = "header" THEN 4 ELSE f_size) - Len(f_buf)

\* line 11: receive_some returns between 1 and n - len(buf) bytes
FReceiveSome ==
    /\ f_pc \in {"header", "payload"}
    /\ Need > 0
    /\ f_pos < f_cut
    /\ \E k \in 1..(IF Need < f_cut - f_pos THEN Need ELSE f_cut - f_pos) :
        /\ f_buf' = f_buf \o SubSeq(f_wire, f_pos + 1, f_pos + k)
        /\ f_pos' = f_pos + k
    /\ UNCHANGED <<f_pc, f_msg, f_wire, f_cut, f_event, f_size, f_ret>>
    /\ UNCHANGED <<hvars, rvars, cvars, nvars, gvars, qvars>>

\* faulty variant of FEndOfChannel: receive_exactly returns the bytes it has
\* and recv_msg makes a message of them
FEndOfChannelShort ==
    /\ f_pc \in {"header", "payload"}
    /\ Need > 0
    /\ f_pos = f_cut
    /\ f_event = "eof"
    /\ f_ret' = Returned(MapV(<<>>))
    /\ f_pc' = "returned"
    /\ UNCHANGED <<f_msg, f_wire, f_cut, f_event, f_pos, f_buf, f_size>>
    /\ UNCHANGED <<hvars, rvars, cvars, nvars, gvars, qvars>>
\* lines 11-13, 29-30: receive_some returns b"", receive_exactly raises
\* EndOfChannel and recv_msg returns None
FEndOfChannel ==
    /\ f_pc \in {"header", "payload"}
    /\ Need > 0
    /\ f_pos = f_cut
    /\ f_event = "eof"
    /\ f_ret' = ReturnedNone
    /\ f_pc' = "returned"
    /\ UNCHANGED <<f_msg, f_wire, f_cut, f_event, f_pos, f_buf, f_size>>
    /\ UNCHANGED <<hvars, rvars, cvars, nvars, gvars, qvars>>

\* line 11: receive_some raises; nothing in recv_msg catches it
FStreamRaises ==
    /\ f_pc \in {"header", "payload"}
    /\ Need > 0
    /\ f_pos = f_cut
    /\ f_event = "error"
    /\ f_ret' = Raised
    /\ f_pc' = "returned"
    /\ UNCHANGED <<f_msg, f_wire, f_cut, f_event, f_pos, f_buf, f_size>>
    /\ UNCHANGED <<hvars, rvars, cvars, nvars, gvars, qvars>>

\* lines 25-26: the 4 header bytes are there, size is decoded
FHeaderRead ==
    /\ f_pc = "header"
    /\ Need = 0
    /\ f_size' = StructUnpackI(f_buf)
    /\ f_buf' = <<>>
    /\ f_pc' = "payload"
    /\ UNCHANGED <<f_msg, f_wire, f_cut, f_event, f_pos, f_ret>>
    /\ UNCHANGED <<hvars, rvars, cvars, nvars, gvars, qvars>>

\* lines 27-28: the payload is there, it is unpacked and returned
FPayloadRead ==
    /\ f_pc = "payload"
    /\ Need = 0
    /\ f_ret' = Returned(Unpackb(f_buf))
    /\ f_pc' = "returned"
    /\ UNCHANGED <<f_msg, f_wire, f_cut, f_event, f_pos, f_buf, f_size>>
    /\ UNCHANGED <<hvars, rvars, cvars, nvars, gvars, qvars>>

FNext ==
    \/ FSendMsg \/ FReceiveSome \/ FEndOfChannel \/ FStreamRaises
    \/ FHeaderRead \/ FPayloadRead

---------------------------------------------------------------------------
\* server.py: jsonrpc_endpoint and the response_generator of an accepted
\* request, with handle_generic_task as the child of its task group

\* JSON values are tagged like the values of the framing; here a string is
\* the sequence of its symbols, where a quote and a backslash are symbols of
\* their own and a word is one symbol
NoneV == [t |-> "none", v |-> <<>>]
Quote == "\""
Backslash == "\\"

\* the id of the request: a string, null, or an object
ReqIds ==
    {StrV(<<"r1">>), NoneV, MapV(<< <<(<<"type">>), StrV(<<"done">>)>> >>)}

\* ALLOWED_IPS with the default configuration, and the hosts always let in
AllowedIps == {"127.0.0.1"}
AlwaysAllowed == {"127.0.0.1", "localhost", "testclient"}

\* the requests: where they come from, whether the body parses and to what,
\* and for a JSON object its jsonrpc, method, params and id
Requests ==
    {[host |-> h, body |-> b, jsonrpc |-> Absent, method |-> Absent,
      params |-> "dict", payload |-> CHOOSE p \in Payloads : p.kind = "text", id |-> NoneV] :
        h \in {"testclient", "10.0.0.9"}, b \in {"unparsable", "nonobject"}}
    \cup {[host |-> h, body |-> "object", jsonrpc |-> j, method |-> me,
           params |-> "list", payload |-> CHOOSE p \in Payloads : p.kind = "text", id |-> i] :
        h \in {"testclient", "10.0.0.9"}, j \in {"2.0", "1.0", Absent},
        me \in {"submit_task", "other"}, i \in ReqIds}
    \cup {[host |-> h, body |-> "object", jsonrpc |-> j, method |-> me,
           params |-> "dict", payload |-> p, id |-> i] :
        h \in {"testclient", "10.0.0.9"}, j \in {"2.0", "1.0", Absent},
        me \in {"submit_task", "other"}, p \in Payloads, i \in ReqIds}

\* the text of a fragment: "b" stands for a fragment that reads "type": "done"
FragmentText(d) ==
    IF d = "b" THEN <<Quote, "type", Quote, ": ", Quote, "done", Quote>> ELSE <<d>>

\* lines 47, 50, 56 of handler.py: the dict the handler passes to
\* send_response_func
ResultObj(msg) ==
    CASE msg.type = "chunk" ->
            MapV(<< <<(<<"request_id">>), StrV(<<msg.request_id>>)>>,
                    <<(<<"type">>), StrV(<<"chunk">>)>>,
                    <<(<<"data">>), StrV(FragmentText(msg.data))>> >>)
      [] msg.type = "done" ->
            MapV(<< <<(<<"request_id">>), StrV(<<msg.request_id>>)>>,
                    <<(<<"type">>), StrV(<<"done">>)>> >>)
      [] msg.type = "error" ->
            MapV(<< <<(<<"request_id">>), StrV(<<msg.request_id>>)>>,
                    <<(<<"type">>), StrV(<<"error">>)>>,
                    <<(<<"message">>), StrV(<<"str(e)">>)>> >>)

\* line 119: the envelope of one message
Envelope(msg, id) ==
    MapV(<< <<(<<"jsonrpc">>), StrV(<<"2.0">>)>>,
            <<(<<"result">>), ResultObj(msg)>>,
            <<(<<"id">>), id>> >>)

\* what json.dumps does inside a string: a quote and a backslash get a
\* backslash in front
RECURSIVE JsonEscape(_)
JsonEscape(s) ==
    IF s = <<>> THEN <<>>
    ELSE (IF s[1] \in {Quote, Backslash} THEN <<Backslash, s[1]>> ELSE <<s[1]>>)
         \o JsonEscape(Tail(s))

\* line 120: json.dumps with its default separators ", " and ": "
RECURSIVE JsonDumps(_), JsonDumpsPairs(_)
JsonDumps(x) ==
    CASE x.t = "str" -> <<Quote>> \o JsonEscape(x.v) \o <<Quote>>
      [] x.t = "none" -> <<"null">>
      [] x.t = "map" -> <<"{">> \o JsonDumpsPairs(x.v) \o <<"}">>
JsonDumpsPairs(p) ==
    IF p = <<>> THEN <<>>
    ELSE <<Quote>> \o JsonEscape(p[1][1]) \o <<Quote, ": ">> \o JsonDumps(p[1][2])
         \o (IF Len(p) > 1 THEN <<", ">> ELSE <<>>) \o JsonDumpsPairs(Tail(p))

\* line 120: what is put on the channel for one message
ResponseLine(msg, id) ==
    [msg |-> msg, id |-> id, text |-> JsonDumps(Envelope(msg, id)) \o <<"\n">>]

\* the `in` of Python strings
Contains(text, part) ==
    \E i \in 1..(Len(text) - Len(part) + 1) : SubSeq(text, i, i + Len(part) - 1) = part

\* line 133: '"type": "done"' in msg or '"type": "error"' in msg
LooksTerminal(text) ==
    \/ Contains(text, <<Quote, "type", Quote, ": ", Quote, "done", Quote>>)
    \/ Contains(text, <<Quote, "type", Quote, ": ", Quote, "error", Quote>>)

GInit ==
    /\ g_pc = "request"
    /\ g_req \in Requests
    /\ g_status = 0
    /\ g_code = 0
    /\ g_chan = <<>>
    /\ g_cur = <<>>
    /\ g_lines = <<>>

\* no request arrives at the endpoint
GIdle ==
    /\ g_pc = "off"
    /\ g_req = CHOOSE r \in Requests : r.body = "unparsable" /\ r.host = "testclient"
    /\ g_status = 0
    /\ g_code = 0
    /\ g_chan = <<>>
    /\ g_cur = <<>>
    /\ g_lines = <<>>

\* lines 48-53: the address check
HostAllowed(h) == h \in AllowedIps \/ h \in AlwaysAllowed

\* lines 46-110, 136: status and JSON-RPC error code of the response, check by
\* check. A body that parses to something other than an object makes
\* rpc_req.get raise AttributeError outside any try: the server answers 500.
EndpointResponse(r) ==
    IF ~HostAllowed(r.host) THEN <<403, 0>>
    ELSE IF r.body = "unparsable" THEN <<400, -32700>>
    ELSE IF r.body = "nonobject" THEN <<500, 0>>
    ELSE IF r.jsonrpc # "2.0" THEN <<400, -32600>>
    ELSE IF r.method # "submit_task" THEN <<404, -32601>>
    ELSE IF r.params # "dict" THEN <<400, -32602>>
    ELSE <<200, 0>>

\* faulty variant of GEndpoint: the stream is started whatever the checks say
GEndpointStreamsAnyway ==
    /\ g_pc = "request"
    /\ g_status' = EndpointResponse(g_req)[1]
    /\ g_code' = EndpointResponse(g_req)[2]
    /\ g_pc' = "receive"
    /\ UNCHANGED <<g_req, g_chan, g_cur, g_lines>>
    /\ UNCHANGED <<hvars, rvars, cvars, nvars, fvars, qvars>>
\* lines 46-136: the request is answered with a rejection, or the streaming
\* response is started; the generator starts the handler and waits on the
\* channel
GEndpoint ==
    /\ g_pc = "request"
    /\ g_status' = EndpointResponse(g_req)[1]
    /\ g_code' = EndpointResponse(g_req)[2]
    /\ g_pc' = IF EndpointResponse(g_req)[1] = 200 THEN "receive" ELSE "rejected"
    /\ UNCHANGED <<g_req, g_chan, g_cur, g_lines>>
    /\ UNCHANGED <<hvars, rvars, cvars, nvars, fvars, qvars>>

\* line 123: the handler runs as a child of the task group
HandlerRunning == g_pc \in {"receive", "yield", "closing"}

\* faulty variant of CanSend: the channel takes any number of items
CanSendBuffered == TRUE
\* line 116: the channel has no buffer, send returns only when the generator
\* is waiting in receive and takes the item
CanSend == g_pc = "receive" /\ g_chan = <<>>

\* handler.py lines 28-45: the handler steps that send nothing
GHandlerStep ==
    /\ HandlerRunning
    /\ HResolve \/ HProcessorFails
    /\ UNCHANGED gvars

\* lines 118-120: the handler calls send_response_func, which returns when
\* the item was handed over
GHandlerSends ==
    /\ HandlerRunning
    /\ CanSend
    /\ HChunk \/ HDone \/ HError
    /\ h_out' # h_out
    /\ g_chan' = Append(g_chan, ResponseLine(h_out'[Len(h_out')], g_req.id))
    /\ UNCHANGED <<g_pc, g_req, g_status, g_code, g_cur, g_lines>>

\* line 131: the generator receives the next item
GReceive ==
    /\ g_pc = "receive"
    /\ g_chan # <<>>
    /\ g_cur' = <<Head(g_chan)>>
    /\ g_chan' = Tail(g_chan)
    /\ g_pc' = "yield"
    /\ UNCHANGED <<g_req, g_status, g_code, g_lines>>
    /\ UNCHANGED <<hvars, rvars, cvars, nvars, fvars, qvars>>

\* lines 132-134: the line is yielded to the response; when the generator is
\* resumed it leaves the loop if the line looks terminal
GYield ==
    /\ g_pc = "yield"
    /\ g_lines' = Append(g_lines, g_cur[1])
    /\ g_cur' = <<>>
    /\ g_pc' = IF LooksTerminal(g_cur[1].text) THEN "closing" ELSE "receive"
    /\ UNCHANGED <<g_req, g_status, g_code, g_chan>>
    /\ UNCHANGED <<hvars, rvars, cvars, nvars, fvars, qvars>>

\* line 122: the task group is left once the handler has returned, and the
\* response ends
GClose ==
    /\ g_pc = "closing"
    /\ h_pc = "returned"
    /\ g_pc' = "ended"
    /\ UNCHANGED <<g_req, g_status, g_code, g_chan, g_cur, g_lines>>
    /\ UNCHANGED <<hvars, rvars, cvars, nvars, fvars, qvars>>

GNext == GEndpoint \/ GHandlerStep \/ GHandlerSends \/ GReceive \/ GYield \/ GClose

---------------------------------------------------------------------------
\* framing.py on one stream: a writer makes successive send_msg calls and may
\* close the stream, a reader makes successive recv_msg calls

MaxMsgs == 2

\* the messages written: {} and {"k": "éa"}
StreamMsgs == {MapV(<<>>), MapV(<< <<(<<107>>), StrV(<<233, 97>>)>> >>)}

QInit ==
    /\ q_sent = <<>>
    /\ q_wire = <<>>
    /\ q_closed = FALSE
    /\ q_pc = "idle"
    /\ q_pos = 0
    /\ q_start = 0
    /\ q_n = 0
    /\ q_buf = <<>>
    /\ q_got = <<>>

\* lines 18-20: one more message is written as one frame
QSendMsg ==
    /\ ~q_closed
    /\ Len(q_sent) < MaxMsgs
    /\ \E x \in StreamMsgs :
        /\ q_sent' = Append(q_sent, x)
        /\ q_wire' = q_wire \o StructPackI(Len(Packb(x))) \o Packb(x)
    /\ UNCHANGED <<q_closed, q_pc, q_pos, q_start, q_n, q_buf, q_got>>
    /\ UNCHANGED <<hvars, rvars, cvars, nvars, fvars, gvars>>

\* line 20: the writer ends inside send_all: a part of the frame is on the
\* stream, which is closed; the message was not sent
QSendAborted ==
    /\ ~q_closed
    /\ Len(q_sent) < MaxMsgs
    /\ \E x \in StreamMsgs :
        LET frame == StructPackI(Len(Packb(x))) \o Packb(x) IN
        \E j \in 1..(Len(frame) - 1) : q_wire' = q_wire \o SubSeq(frame, 1, j)
    /\ q_closed' = TRUE
    /\ UNCHANGED <<q_sent, q_pc, q_pos, q_start, q_n, q_buf, q_got>>
    /\ UNCHANGED <<hvars, rvars, cvars, nvars, fvars, gvars>>

\* the writer closes the stream
QClose ==
    /\ ~q_closed
    /\ q_closed' = TRUE
    /\ UNCHANGED <<q_sent, q_wire, q_pc, q_pos, q_start, q_n, q_buf, q_got>>
    /\ UNCHANGED <<hvars, rvars, cvars, nvars, fvars, gvars>>

\* lines 23-25: recv_msg is called and calls receive_exactly(stream, 4)
QRecvMsg ==
    /\ q_pc = "idle"
    /\ q_pc' = "header"
    /\ q_start' = q_pos
    /\ q_n' = 4
    /\ q_buf' = <<>>
    /\ UNCHANGED <<q_sent, q_wire, q_closed, q_pos, q_got>>
    /\ UNCHANGED <<hvars, rvars, cvars, nvars, fvars, gvars>>

\* faulty variant of Ask: every receive_some call asks for n bytes
AskWhole(n, buf) == n
\* line 11: the argument of receive_some, the bytes still missing
Ask(n, buf) == n - Len(buf)

\* the bytes written and not yet returned by receive_some
Unread == Len(q_wire) - q_pos

\* lines 10-14: receive_some returns between 1 byte and what was asked for,
\* and the bytes are added to buf
QReceiveSome ==
    /\ q_pc \in {"header", "payload"}
    /\ Len(q_buf) < q_n
    /\ Unread > 0
    /\ \E k \in 1..(IF Ask(q_n, q_buf) < Unread THEN Ask(q_n, q_buf) ELSE Unread) :
        /\ q_buf' = q_buf \o SubSeq(q_wire, q_pos + 1, q_pos + k)
        /\ q_pos' = q_pos + k
    /\ UNCHANGED <<q_sent, q_wire, q_closed, q_pc, q_start, q_n, q_got>>
    /\ UNCHANGED <<hvars, rvars, cvars, nvars, fvars, gvars>>

\* lines 11-13, 29-30: the stream has ended, receive_some returns b"",
\* receive_exactly raises EndOfChannel and recv_msg returns None
QEndOfChannel ==
    /\ q_pc \in {"header", "payload"}
    /\ Len(q_buf) < q_n
    /\ Unread = 0
    /\ q_closed
    /\ q_pc' = "end"
    /\ UNCHANGED <<q_sent, q_wire, q_closed, q_pos, q_start, q_n, q_buf, q_got>>
    /\ UNCHANGED <<hvars, rvars, cvars, nvars, fvars, gvars>>

\* lines 15, 25-27: receive_exactly returns the header, the size is decoded
\* and receive_exactly(stream, size) is called
QHeaderRead ==
    /\ q_pc = "header"
    /\ Len(q_buf) >= q_n
    /\ q_pc' = "payload"
    /\ q_start' = q_pos
    /\ q_n' = StructUnpackI(q_buf)
    /\ q_buf' = <<>>
    /\ UNCHANGED <<q_sent, q_wire, q_closed, q_pos, q_got>>
    /\ UNCHANGED <<hvars, rvars, cvars, nvars, fvars, gvars>>

\* lines 15, 27-28: receive_exactly returns the payload, which is unpacked
\* and returned
QPayloadRead ==
    /\ q_pc = "payload"
    /\ Len(q_buf) >= q_n
    /\ q_got' = Append(q_got, Unpackb(q_buf))
    /\ q_pc' = "idle"
    /\ UNCHANGED <<q_sent, q_wire, q_closed, q_pos, q_start, q_n, q_buf>>
    /\ UNCHANGED <<hvars, rvars, cvars, nvars, fvars, gvars>>

QNext ==
    \/ QSendMsg \/ QSendAborted \/ QClose \/ QRecvMsg \/ QReceiveSome \/ QEndOfChannel
    \/ QHeaderRead \/ QPayloadRead

---------------------------------------------------------------------------
InitHandler == HInit /\ RIdle /\ CInit /\ NInit /\ FIdle /\ GIdle /\ QInit
InitClient == HIdle /\ RIdle /\ CInit /\ NInit /\ FIdle /\ GIdle /\ QInit
InitRouter == HIdle /\ RInit /\ CInit /\ NInit /\ FIdle /\ GIdle /\ QInit
InitConn == HIdle /\ RIdle /\ CInit /\ NInit /\ FIdle /\ GIdle /\ QInit

SpecHandler == InitHandler /\ [][HNext]_vars
SpecClient == InitClient /\ [][CNext]_vars
SpecClientLive == InitClient /\ [][CNext]_vars /\ CFairness
SpecRouter == InitRouter /\ [][RNext]_vars
SpecConn == InitConn /\ [][NNext]_vars
InitFraming == HIdle /\ RIdle /\ CInit /\ NInit /\ FInit /\ GIdle /\ QInit
SpecFraming == InitFraming /\ [][FNext]_vars
InitServer ==
    /\ HInit /\ RIdle /\ CInit /\ NInit /\ FIdle /\ GInit /\ QInit
    /\ h_payload = g_req.payload
SpecServer == InitServer /\ [][GNext]_vars

\* a router that gets no request, and a client that is not called
ROff ==
    /\ r_pc = "off"
    /\ r_req = [request_id |-> "r1", payload |-> "p"]
    /\ r_conn = "none"
    /\ r_toApp = <<>>
    /\ r_recvd = <<>>
    /\ r_msg = Absent
    /\ r_calls = <<>>
    /\ r_in = <<>>
    /\ r_exc = Absent
    /\ r_end = "none"
COff ==
    /\ c_pc = "off"
    /\ c_id = Absent
    /\ c_payload = "p"
    /\ c_sent = <<>>
    /\ c_cur = <<>>
    /\ c_hist = <<>>
    /\ c_yield = <<>>
    /\ c_end = "none"
    /\ c_outcome = "running"
    /\ c_status = <<>>

\* the three hops of a response, each in a process of its own: the router,
\* the client of the engine, and the HTTP worker. They share no state, so a
\* behaviour follows one of them.
InitHops ==
    \/ HIdle /\ RInit /\ COff /\ NInit /\ FIdle /\ GIdle /\ QInit
    \/ HIdle /\ ROff /\ CInit /\ NInit /\ FIdle /\ GIdle /\ QInit
    \/ /\ HInit /\ ROff /\ COff /\ NInit /\ FIdle /\ GInit /\ QInit
       /\ h_payload = g_req.payload
InitStream == HIdle /\ RIdle /\ CInit /\ NInit /\ FIdle /\ GIdle /\ QInit
SpecStream == InitStream /\ [][QNext]_vars
HopsNext == RNext \/ CNext \/ GNext
SpecHops == InitHops /\ [][HopsNext]_vars

---------------------------------------------------------------------------
\* C1: provided sends succeed, handle_generic_task emits zero or more chunk
\* messages followed by exactly one terminal message (done or error): a
\* terminal message is only ever the last message emitted, and when the
\* handler has returned the emitted sequence is chunks then one terminal.
C1_TerminalInvariant ==
    ~h_sendFailed =>
        /\ \A i \in 1..(Len(h_out) - 1) : h_out[i].type = "chunk"
        /\ TerminalCount(h_out) <= 1
        /\ (h_pc = "returned" => ChunksThenTerminal(h_out) /\ TerminalCount(h_out) = 1)
        /\ (TerminalCount(h_out) = 1 => h_pc = "returned")

\* a failure after one fragment ended with chunk, error
C1_Witness ==
    /\ h_pc = "returned"
    /\ ~h_sendFailed
    /\ Len(h_out) = 2
    /\ h_out[1].type = "chunk"
    /\ h_out[2].type = "error"
    /\ h_exc = "processor failure"

---------------------------------------------------------------------------
\* Claims about handle_task

\* s cut immediately after its first message of type done or error
RECURSIVE CutAfterTerminal(_)
CutAfterTerminal(s) ==
    IF s = <<>> THEN <<>>
    ELSE IF IsTerminal(s[1]) THEN <<s[1]>>
    ELSE <<s[1]>> \o CutAfterTerminal(Tail(s))

RequestHasId == r_req.request_id \notin {Absent, ""}

\* C2: for every inbound request that carries a request_id and every
\* behaviour of the downstream hop, the messages sent to the inbound caller
\* contain exactly one terminal message (stated for the runs in which every
\* send on the inbound stream succeeded).
C2_ExactlyOneTerminal ==
    (r_pc = "returned" /\ RequestHasId /\ r_in = r_calls)
        => TerminalCount(r_in) = 1

\* C3 as claimed: once the downstream connection is established, the messages
\* sent to the inbound caller are the received messages cut after the first
\* terminal message.
C3_RelayEqualsReceived ==
    (r_pc = "returned" /\ r_conn # "none")
        => r_calls = CutAfterTerminal(r_recvd)

\* C3 as amended: the messages sent to the inbound caller are the received
\* messages cut after the first terminal message, in order and unmodified,
\* followed by one made-up error message exactly when the relay ended by an
\* exception; nothing is read or relayed after a terminal message, and
\* without an exception every relayed message was written.
C3_RelayThenProxyError ==
    /\ r_recvd = CutAfterTerminal(r_recvd)
    /\ (r_pc = "returned" /\ r_conn # "none") =>
        /\ r_end \in {"terminal", "eof"} =>
            r_calls = CutAfterTerminal(r_recvd) /\ r_in = r_calls
        /\ r_end = "exception" =>
            r_calls = CutAfterTerminal(r_recvd)
                        \o <<ErrorMsg(r_req.request_id, ProxyErrorText(r_exc))>>
        /\ r_end \in {"terminal", "eof", "exception"}

\* a chunk and an error were relayed, and the relay stopped there
C3_Witness ==
    /\ r_pc = "returned"
    /\ r_end = "terminal"
    /\ Len(r_recvd) = 2
    /\ r_recvd[2].type = "error"
    /\ r_calls = r_recvd

\* C9: for a request without request_id (absent or empty) nothing is sent to
\* the inbound caller, no outbound connection is opened and nothing is sent
\* downstream.
C9_NoIdDropped ==
    r_req.request_id \in {Absent, ""} =>
        /\ r_calls = <<>>
        /\ r_in = <<>>
        /\ r_conn = "none"
        /\ r_toApp = <<>>
        /\ r_pc \in {"start", "returned"}

\* the request with the empty request_id was handled
C9_Witness ==
    /\ r_req.request_id = ""
    /\ r_pc = "returned"
    /\ r_end = "dropped"

\* C10: if the downstream hop cannot be reached or fails before producing
\* any message, exactly one error message is sent to the inbound caller,
\* with the request's id and the proxy failure as message, and no chunk.
C10_OneProxyError ==
    (/\ r_pc = "returned"
     /\ RequestHasId
     /\ r_recvd = <<>>
     /\ r_end \in {"exception", "eof"})
        => r_calls = <<ErrorMsg(r_req.request_id, ProxyErrorText(r_exc))>>

---------------------------------------------------------------------------
\* Claims about submit_task

RECURSIVE Flatten(_)
Flatten(ss) == IF ss = <<>> THEN <<>> ELSE ss[1] \o Flatten(Tail(ss))

\* the lines s without the messages that carry another id than rid
RECURSIVE WithoutForeign(_, _)
WithoutForeign(s, rid) ==
    IF s = <<>> THEN <<>>
    ELSE (IF s[1].form = "obj" /\ s[1].id # rid THEN <<>> ELSE <<s[1]>>)
            \o WithoutForeign(Tail(s), rid)

\* what the loop yields for the lines s, and whether it ends the sequence
RECURSIVE RunLines(_, _)
RunLines(s, rid) ==
    IF s = <<>> THEN [yields |-> <<>>, ended |-> FALSE]
    ELSE LET act == LineAction(s[1], rid) IN
         IF act \in {"done", "error", "rpcerror"}
         THEN [yields |-> <<>>, ended |-> TRUE]
         ELSE LET rest == RunLines(Tail(s), rid) IN
              [yields |-> (IF act = "yield" THEN <<s[1].data>> ELSE <<>>) \o rest.yields,
               ended |-> rest.ended]

EndedByMessage == c_pc = "returned" /\ c_end \in {"done", "error", "rpcerror"}

\* C4: messages with another id are discarded: what the current attempt has
\* yielded, and whether it has ended the sequence, is what the same lines
\* without those messages give.
C4_ForeignDiscarded ==
    c_pc # "start" =>
        LET r == RunLines(WithoutForeign(c_cur, c_id), c_id) IN
        /\ c_yield = Flatten(c_hist) \o r.yields
        /\ EndedByMessage <=> r.ended

\* a foreign done and a foreign chunk were received before a chunk was yielded
C4_Witness ==
    /\ c_pc = "lines"
    /\ Len(c_cur) = 2
    /\ c_cur[1].id # c_id /\ c_cur[1].type = "done"
    /\ c_cur[2].id = c_id /\ c_cur[2].type = "chunk"
    /\ c_yield = <<c_cur[2].data>>

\* C5: the request_id is generated once; every attempt sends the same
\* request with that id, and an attempt that ends by transport error or
\* end-of-stream without a terminal message leads to a new attempt, never to
\* the end of the sequence.
C5_SameRequestEveryAttempt ==
    /\ \A i \in 1..Len(c_sent) : c_sent[i] = RpcReq(c_id, c_payload)
    /\ \A i \in 1..Len(c_sent) : c_sent[i] = c_sent[1]
    /\ c_pc \in {"lines", "returned"} => Len(c_sent) = Len(c_hist) + 1
    /\ c_pc \in {"attempt", "sleep"} => Len(c_sent) = Len(c_hist)
    /\ c_pc = "returned" => c_end \in {"done", "error", "rpcerror", "status"}

\* a second attempt was made after one that failed
C5_Witness ==
    /\ Len(c_sent) = 2
    /\ Len(c_hist) = 1
    /\ c_pc = "lines"

\* C6: chunks are not deduplicated: the yielded sequence is the
\* concatenation, over the attempts in order, of the matching chunks each
\* attempt received.
C6_NoDeduplication ==
    c_pc # "start" =>
        c_yield = Flatten(c_hist) \o MatchingChunks(c_cur, c_id)

\* the same chunk was yielded in two attempts
C6_Witness ==
    /\ Len(c_hist) = 1
    /\ c_hist[1] = <<"a">>
    /\ c_cur = <<ChunkLine(c_id, "a")>>
    /\ c_yield = <<"a", "a">>

\* C7: when the sequence ends without an error signalled to the caller, a
\* matching done was received in the last attempt (stated for attempts that
\* were answered with status 200).
C7_NormalEndMeansDone ==
    (c_pc = "returned" /\ c_outcome = "end" /\ c_end # "status")
        => c_end = "done"

\* C8: a matching error message ends the sequence with an outcome that
\* carries the error, not with the normal end of the sequence.
C8_ErrorSurfaced ==
    (c_pc = "returned" /\ c_end \in {"error", "rpcerror"})
        => c_outcome = "raised"

\* C14: within an attempt nothing is read or yielded after a done or error
\* for the request's id: such a line is the last line of the attempt, the
\* sequence has ended with it, and what was yielded are the chunks before it.
C14_NothingAfterTerminal ==
    \A i \in 1..Len(c_cur) :
        MatchingTerminal(c_cur[i], c_id) =>
            /\ i = Len(c_cur)
            /\ c_pc = "returned"
            /\ c_outcome = "end"
            /\ c_yield = Flatten(c_hist) \o MatchingChunks(SubSeq(c_cur, 1, i - 1), c_id)

\* a chunk was yielded, then done ended the sequence
C14_Witness ==
    /\ c_pc = "returned"
    /\ c_end = "done"
    /\ Len(c_cur) = 2
    /\ c_cur[1].type = "chunk" /\ c_cur[1].id = c_id
    /\ c_yield = <<c_cur[1].data>>

ErrorSeen == c_end \in {"error", "rpcerror"}

\* C15: an application error is never retried: a step that sees an error for
\* the request's id ends the generator, and no later step sends a request or
\* leaves the returned state.
C15_ErrorNeverRetried ==
    [][/\ ErrorSeen' => c_pc' = "returned"
       /\ ErrorSeen => (c_sent' = c_sent /\ c_pc' = "returned" /\ c_end' = c_end)]_vars

\* the second attempt received a JSON-RPC error; no third request was sent
C15_Witness ==
    /\ c_end = "rpcerror"
    /\ c_pc = "returned"
    /\ Len(c_sent) = 2

\* C16: an attempt that ends by end-of-stream is handled like one that fails
\* with a transport error: every attempt that ends without a terminal message
\* is followed by the wait of the retry interval.
C16_EofWaitsLikeTransportError ==
    [][(c_pc = "lines" /\ c_pc' \notin {"lines", "returned"}) => c_pc' = "sleep"]_vars

\* C17: the number of attempts is not bounded: as long as every attempt has
\* failed or ended without a terminal message, submit_task has not
\* terminated, has reported nothing to the caller, and is in, or on its way
\* to, a further attempt.
C17_RetriesWithoutBound ==
    (c_pc # "start" /\ Len(c_hist) = Len(c_sent)) =>
        /\ c_pc \in {"attempt", "sleep"}
        /\ c_end = "none"
        /\ c_outcome = "running"
        /\ (c_pc = "attempt" /\ Len(c_sent) < MaxAttempts) => ENABLED CPost

\* every attempt the bound allows has failed and the loop is still going
C17_Witness ==
    /\ Len(c_hist) = MaxAttempts
    /\ Len(c_sent) = MaxAttempts
    /\ c_pc = "attempt"
    /\ c_outcome = "running"

---------------------------------------------------------------------------
\* Claims about the paths of handle_generic_task

\* one chunk message per fragment, in order
ChunkMsgs(frags) == [i \in 1..Len(frags) |-> ChunkMsg(HandlerId, frags[i])]

\* the processor was driven to its end: line 50 has been reached, where the
\* done message is passed to send_response_func
ProcessorCompleted ==
    /\ h_generated
    /\ \E i \in 1..Len(h_calls) : h_calls[i].type = "done"

\* C18 as claimed: when the processor yields f1..fn and completes, the
\* handler sends n chunk messages with f1..fn in order and then one done
\* message, and nothing else.
C18_ChunksThenDone ==
    (h_pc = "returned" /\ ProcessorCompleted)
        => h_calls = ChunkMsgs(h_frags) \o <<DoneMsg(HandlerId)>>

\* C18 as amended: the handler sends n chunk messages with f1..fn in order
\* and then one done message; that is all it sends when the send of done
\* succeeds, and when that send raises one error message follows.
C18_ChunksThenDoneUnlessSendFails ==
    ProcessorCompleted =>
        /\ Len(h_calls) > Len(h_frags)
        /\ SubSeq(h_calls, 1, Len(h_frags) + 1)
                = ChunkMsgs(h_frags) \o <<DoneMsg(HandlerId)>>
        /\ h_pc = "returned" =>
            IF h_sendFailed
            THEN /\ h_calls = ChunkMsgs(h_frags)
                        \o <<DoneMsg(HandlerId), ErrorMsg(HandlerId, "send failed")>>
                 /\ IsPrefix(ChunkMsgs(h_frags), h_out)
            ELSE h_calls = ChunkMsgs(h_frags) \o <<DoneMsg(HandlerId)>>
                 /\ h_out = h_calls

\* two fragments were sent as chunks in order, then done
C18_Witness ==
    /\ h_pc = "returned"
    /\ h_frags = <<"b", "a">>
    /\ ~h_sendFailed
    /\ Len(h_out) = 3
    /\ h_out[3].type = "done"

\* C19: when the processor fails after k fragments, the k chunk messages
\* have been emitted and exactly one error message with the failure's text
\* is sent after them; no done and no further chunk.
C19_FailureAfterChunks ==
    h_exc = "processor failure" =>
        /\ SubSeq(h_calls, 1, Len(h_frags)) = ChunkMsgs(h_frags)
        /\ SubSeq(h_out, 1, Len(h_frags)) = ChunkMsgs(h_frags)
        /\ h_pc = "except" => h_calls = ChunkMsgs(h_frags)
        /\ h_pc = "returned" =>
            h_calls = ChunkMsgs(h_frags)
                        \o <<ErrorMsg(HandlerId, "processor failure")>>
        /\ h_pc \in {"except", "returned"}

\* the processor failed after two fragments
C19_Witness ==
    /\ h_pc = "returned"
    /\ h_exc = "processor failure"
    /\ Len(h_frags) = 2
    /\ Len(h_calls) = 3

\* C20: for a model name that is not in the registry exactly one message is
\* sent, an error whose text says the model was not found; no chunk, no
\* done, and the processor is never invoked.
C20_UnknownModel ==
    (h_payload.kind = "obj" /\ h_payload.model = "unknown") =>
        /\ ~h_generated
        /\ h_frags = <<>>
        /\ h_pc \in {"start", "except", "returned"}
        /\ h_pc # "returned" => h_calls = <<>>
        /\ h_pc = "returned" =>
            /\ Len(h_calls) = 1
            /\ h_calls[1].type = "error"
            /\ h_calls[1].message = <<"Model not found", "unknown">>
            /\ h_calls[1].request_id = HandlerId

\* the unknown model was answered with the error message
C20_Witness ==
    /\ h_payload.model = "unknown"
    /\ h_pc = "returned"
    /\ Len(h_out) = 1
    /\ h_out[1].type = "error"

---------------------------------------------------------------------------
\* Claims about one inbound connection with concurrent handle_task children

\* the messages of the complete frames on the inbound stream, in order
Frames == [k \in 1..(Len(w_wire) \div 2) |-> Decode(w_wire[2 * k - 1], w_wire[2 * k])]

\* the response sequence of request id as the peer reads it off the stream
FramesOf(id) == SelectSeq(Frames, LAMBDA m : m.request_id = id)

\* C12: one child per request read, further requests are read while earlier
\* children still run, and handle_connection returns only after every child
\* has completed, whether the read loop ended by end-of-stream or by an error.
C12_NurseryWaitsForChildren ==
    /\ \A id \in ConnIds : (t_task[id].pc # "idle") <=> (id \in Range(s_read))
    /\ IsPrefix(s_read, ConnReqs)
    /\ (s_pc = "reading" /\ s_read # ConnReqs) => ENABLED SRead(ConnReqs[Len(s_read) + 1])
    /\ s_pc = "reading" <=> s_why = "none"
    /\ s_pc = "returned" => \A id \in Range(s_read) : t_task[id].pc = "done"

\* the second request was read while the first child was inside send_all,
\* the read loop then ended by an error and both children have completed
C12_Witness ==
    /\ s_pc = "returned"
    /\ s_why = "error"
    /\ Len(s_read) = 2
    /\ t_task[s_read[2]].exc = "busy"
    /\ \A id \in ConnIds : t_task[id].pc = "done"

C11_EachRequestGetsTerminal ==
    (\A id \in ConnIds : t_task[id].pc = "done" /\ ~t_task[id].fault) =>
        \A id \in ConnIds :
            /\ ChunksThenTerminal(FramesOf(id))
            /\ TerminalCount(FramesOf(id)) = 1

---------------------------------------------------------------------------
\* Claims about failing sends and about payload resolution in
\* handle_generic_task

\* position in h_calls of the first call of send_response_func that raised
\* (Len(h_calls) + 1 when none has)
FirstFailedSend ==
    LET bad == {k \in 1..Len(h_calls) : k > Len(h_out) \/ h_out[k] # h_calls[k]}
    IN IF bad = {} THEN Len(h_calls) + 1
       ELSE CHOOSE k \in bad : \A j \in bad : k <= j

\* C21: whichever send fails, the handler makes at most one more call of
\* send_response_func after the first failure, that call sends the error
\* message, no call follows a failed send of the error message, and the
\* handler always ends by returning.
C21_SendFailureNeverPropagates ==
    /\ h_pc \in {"start", "gen", "except", "returned"}
    /\ ~ENABLED HNext => h_pc = "returned"
    /\ h_sendFailed <=> FirstFailedSend <= Len(h_calls)
    /\ h_sendFailed =>
        /\ h_pc \in {"except", "returned"}
        /\ Len(h_calls) <= FirstFailedSend + 1
        /\ Len(h_calls) = FirstFailedSend + 1 =>
            /\ h_calls[FirstFailedSend].type # "error"
            /\ h_calls[Len(h_calls)] = ErrorMsg(HandlerId, "send failed")
            /\ h_pc = "returned"
        /\ h_calls[FirstFailedSend].type = "error" =>
            Len(h_calls) = FirstFailedSend /\ h_pc = "returned"

\* a chunk could not be sent, the error message could not be sent either,
\* and the handler has returned
C21_Witness ==
    /\ h_pc = "returned"
    /\ Len(h_calls) = 2
    /\ h_calls[1].type = "chunk"
    /\ h_calls[2].type = "error"
    /\ h_out = <<>>

\* C22: a payload that parses as a JSON object gives its model field (gpt2
\* when absent) and its prompt field ("" when absent); any other payload
\* gives the default gpt2 and the whole payload string as the prompt.
C22_PayloadResolution ==
    h_pc # "start" =>
        IF h_payload.kind = "obj"
        THEN /\ h_model = (IF h_payload.model = Absent THEN "gpt2" ELSE h_payload.model)
             /\ h_prompt = (IF h_payload.prompt = Absent THEN "" ELSE h_payload.prompt)
        ELSE /\ h_model = "gpt2"
             /\ h_prompt = h_payload.raw

\* a payload that is JSON but no object was used whole as the prompt
C22_Witness ==
    /\ h_payload.kind = "nonobj"
    /\ h_pc = "returned"
    /\ h_prompt = "[1]"
    /\ h_model = "gpt2"
    /\ h_generated

---------------------------------------------------------------------------
\* Claims about a response whose status is not 200

NotOk(i) == c_status[i] \in {"other", "unread"}

\* C30 as claimed: when a POST is answered with a status other than 200,
\* submit_task ends its sequence, yields nothing from that response and
\* makes no further attempt.
C30_StatusEndsSequence ==
    \A i \in 1..Len(c_status) :
        NotOk(i) =>
            /\ i = Len(c_sent)
            /\ c_pc = "returned" /\ c_outcome = "end"
            /\ c_cur = <<>>
            /\ c_yield = Flatten(c_hist)

\* C30 as amended: the same, provided the body of that response can be read;
\* when reading it raises a transport error the attempt counts as failed and
\* the request is posted again after the wait, still without a chunk from
\* that response.
C30_StatusEndsSequenceIfRead ==
    \A i \in 1..Len(c_status) :
        /\ c_status[i] = "other" =>
            /\ i = Len(c_sent)
            /\ c_pc = "returned" /\ c_outcome = "end" /\ c_end = "status"
            /\ c_cur = <<>>
            /\ c_yield = Flatten(c_hist)
        /\ c_status[i] = "unread" =>
            /\ Len(c_hist) >= i /\ c_hist[i] = <<>>
            /\ i = Len(c_sent) => (c_pc \in {"sleep", "attempt"} /\ c_outcome = "running")

\* the first response had status 500: nothing yielded, one POST only
C30_Witness ==
    /\ c_status = <<"other">>
    /\ c_pc = "returned"
    /\ c_yield = <<>>
    /\ Len(c_sent) = 1

---------------------------------------------------------------------------
\* Claim about the outbound connections of the handle_task children

\* C25: every handle_task child has an outbound connection of its own: a
\* connection is only ever used by the child that made it, no child makes
\* more than one, and no connection is used after it was closed.
C25_OwnOutboundConnection ==
    \A id \in ConnIds :
        /\ o_conns[id].users \subseteq {id}
        /\ ~o_conns[id].late
        /\ t_task[id].conn \in {Absent, id}
        /\ o_conns[id].made <=> t_task[id].conn = id
        /\ o_conns[id].open <=> (o_conns[id].made /\ t_task[id].pc # "done")
        /\ t_task[id].pc \in {"recv", "send", "sending"} => o_conns[id].open

\* both requests were relayed to their end, each on a connection of its own,
\* and both connections are closed
C25_Witness ==
    /\ \A id \in ConnIds :
        /\ o_conns[id].made /\ ~o_conns[id].open
        /\ o_conns[id].users = {id}
        /\ t_task[id].pc = "done" /\ t_task[id].got = 2
    /\ Len(w_wire) = 8

---------------------------------------------------------------------------
\* Python's ==: a NaN is equal to nothing, itself included
RECURSIVE HasNaN(_)
HasNaN(x) ==
    CASE x.t = "float" -> x.v = "nan"
      [] x.t = "list" -> \E i \in 1..Len(x.v) : HasNaN(x.v[i])
      [] x.t = "map" -> \E i \in 1..Len(x.v) : HasNaN(x.v[i][2])
      [] OTHER -> FALSE
PyEqual(a, b) == a = b /\ ~HasNaN(a)

\* the frame was written, delivered whole and recv_msg is over
WholeFrameRead == f_pc = "returned" /\ f_wire # <<>> /\ f_cut = Len(f_wire)

\* the first 4 bytes of the wire, read as a big-endian number, are the
\* number of bytes that follow
PrefixIsPayloadLength ==
    f_wire # <<>> =>
        /\ Len(f_wire) >= 4
        /\ \A i \in 1..Len(f_wire) : f_wire[i] \in 0..255
        /\ f_wire[1] * 16777216 + f_wire[2] * 65536 + f_wire[3] * 256 + f_wire[4]
             = Len(f_wire) - 4

\* C23 as stated: for every message (a map with string keys, string, number
\* and boolean leaves, lists and nested maps) send_msg writes a frame whose
\* prefix is the payload length, and recv_msg on the written bytes returns a
\* message equal to the original.
C23_RoundTrip ==
    /\ f_pc # "sendraised"
    /\ PrefixIsPayloadLength
    /\ WholeFrameRead => f_ret.kind = "msg" /\ PyEqual(f_ret.val, f_msg)

\* C23 amended: the round trip holds for every message whose integers fit
\* 64 bits and whose floats are not NaN. With an integer outside that range
\* send_msg raises and writes nothing; a NaN comes back as a NaN, which
\* does not compare equal to the original.
C23_RoundTripWithin64Bits ==
    /\ f_pc = "sendraised" <=> (f_pc # "send" /\ ~Packable(f_msg))
    /\ f_pc = "sendraised" => f_wire = <<>>
    /\ PrefixIsPayloadLength
    /\ WholeFrameRead =>
        /\ f_ret.kind = "msg"
        /\ f_ret.val = f_msg
        /\ ~HasNaN(f_msg) => PyEqual(f_ret.val, f_msg)

\* a message with a list, a nested map, a two-byte character and a negative
\* number came back equal, read in more than two pieces
C23_Witness ==
    /\ WholeFrameRead
    /\ f_msg = MapV(<< <<(<<107>>), ListV(<<StrV(<<233, 97>>), IntV(-33)>>)>>,
                      <<(<<233>>), MapV(<< <<(<<97>>), IntV(-33)>> >>)>> >>)
    /\ PyEqual(f_ret.val, f_msg)
    /\ f_size = Len(f_wire) - 4

\* C24: recv_msg returns None whenever the channel closes before a complete
\* frame was read (at zero bytes, inside the header or inside the payload),
\* never returns a message built from an incomplete frame, and a transport
\* error of the stream propagates instead of becoming None.
C24_IncompleteFrameIsNone ==
    /\ f_ret.kind = "msg" => f_wire # <<>> /\ f_pos = Len(f_wire)
    /\ (f_pc = "returned" /\ f_pos < Len(f_wire)) =>
        /\ f_cut < Len(f_wire)
        /\ f_event = "eof" => f_ret = ReturnedNone
        /\ f_event = "error" => f_ret = Raised
    /\ f_ret = ReturnedNone => f_event = "eof" /\ f_cut < Len(f_wire)
    /\ f_ret = Raised => f_event = "error" /\ f_cut < Len(f_wire)
    /\ (f_pc \in {"header", "payload"} /\ Need > 0 /\ f_pos = f_cut) =>
        ENABLED (FEndOfChannel \/ FStreamRaises)

\* the channel closed inside the payload, after the header and some payload
\* bytes were read, and recv_msg returned None
C24_Witness ==
    /\ f_pc = "returned"
    /\ f_ret = ReturnedNone
    /\ f_size > 0
    /\ f_buf # <<>>
    /\ Len(f_buf) < f_size

---------------------------------------------------------------------------
\* the response stream yields no further line
StreamOver == g_pc \in {"closing", "ended"}

\* C27: for an accepted submit_task request every line of the streamed
\* response is a JSON-RPC envelope carrying the request's id, and the stream
\* ends immediately after the first line whose result type is done or error:
\* never before such a line, whatever the chunk data contain, and with no
\* line after it.
C27_StreamEndsAfterTerminal ==
    g_status = 200 =>
        /\ \A i \in 1..Len(g_lines) :
            /\ g_lines[i].id = g_req.id
            /\ g_lines[i].text = JsonDumps(Envelope(g_lines[i].msg, g_req.id)) \o <<"\n">>
        /\ \A i \in 1..(Len(g_lines) - 1) : ~IsTerminal(g_lines[i].msg)
        /\ StreamOver => g_lines # <<>> /\ IsTerminal(g_lines[Len(g_lines)].msg)
        /\ (g_lines # <<>> /\ IsTerminal(g_lines[Len(g_lines)].msg)) => StreamOver

\* the response the order of the checks in the claim gives: parse error,
\* then invalid envelope, then unknown method, then invalid params
FirstFailingCheck(r) ==
    IF r.body = "unparsable" THEN <<400, -32700>>
    ELSE IF r.body # "object" \/ r.jsonrpc # "2.0" THEN <<400, -32600>>
    ELSE IF r.method # "submit_task" THEN <<404, -32601>>
    ELSE IF r.params # "dict" THEN <<400, -32602>>
    ELSE <<200, 0>>

\* C28: jsonrpc_endpoint rejects, in this order of precedence: an unparsable
\* body with HTTP 400 and code -32700; an envelope whose jsonrpc field is not
\* "2.0" with 400 and -32600; a method other than submit_task with 404 and
\* -32601; parameters from which no request can be built with 400 and
\* -32602; a request failing several checks gets the response of the first
\* failing check. Stated for the requests that pass the address check.
C28_RejectionOrder ==
    (g_status # 0 /\ HostAllowed(g_req.host)) =>
        <<g_status, g_code>> = FirstFailingCheck(g_req)

---------------------------------------------------------------------------
\* the handler has not been started and nothing was put on the channel
HandlerUntouched ==
    /\ h_pc = "start"
    /\ ~h_generated
    /\ h_calls = <<>>
    /\ g_chan = <<>> /\ g_cur = <<>> /\ g_lines = <<>>

HeldByWorker == Len(h_out) - Len(g_lines)

\* C26: no hop buffers the response. The router has passed message k to the
\* inbound send before it reads message k+1; the client has yielded every
\* matching chunk it has read before it reads the next line; in the HTTP
\* worker the handler cannot hand over message k+1 before message k was
\* yielded to the response. At every hop at most one message is held.
C26_NoHopBuffers ==
    /\ Len(r_recvd) <= Len(r_calls) + 1
    /\ r_pc = "recv" =>
        /\ Len(r_recvd) <= Len(r_calls)
        /\ \A i \in 1..Len(r_recvd) : r_calls[i] = r_recvd[i]
    /\ c_pc \notin {"off", "start"} =>
        Len(c_yield) = Len(Flatten(c_hist)) + Len(MatchingChunks(c_cur, c_id))
    /\ HeldByWorker \in {0, 1}
    /\ Len(g_chan) + Len(g_cur) = HeldByWorker
    /\ \A i \in 1..Len(g_lines) : g_lines[i].msg = h_out[i]

\* two lines were yielded and the handler has handed over the third message,
\* which the generator has not yielded yet
C26_Witness ==
    /\ Len(g_lines) = 2
    /\ Len(h_out) = 3
    /\ g_pc = "yield"
    /\ g_status = 200

---------------------------------------------------------------------------
---------------------------------------------------------------------------
\* a send of a relayed message on the inbound stream has failed
InboundSendFailed == r_exc = "send failed"

\* C32: handle_task never raises to its caller when sending on the inbound
\* stream fails: after the failed send it makes one attempt to send an error
\* message for the request, swallows a failure of that attempt, and returns
\* normally.
C32_SendFailureHandled ==
    /\ r_pc # "raised"
    /\ InboundSendFailed =>
        /\ r_pc \in {"except", "finally", "returned"}
        /\ r_pc = "except" => Len(r_calls) = Len(r_recvd) /\ ENABLED RSendError
        /\ r_pc = "finally" => ENABLED RFinally
        /\ r_pc \in {"finally", "returned"} =>
            /\ Len(r_calls) = Len(r_recvd) + 1
            /\ r_calls[Len(r_calls)] = ErrorMsg(r_req.request_id, ProxyErrorText(r_exc))
            /\ Len(r_in) \in {Len(r_recvd) - 1, Len(r_recvd)}
        /\ r_pc = "returned" => r_end = "exception"

\* the relay of the first message failed, the send of the error message
\* failed as well, and handle_task has returned
C32_Witness ==
    /\ InboundSendFailed
    /\ r_pc = "returned"
    /\ Len(r_calls) = 2
    /\ r_in = <<>>

---------------------------------------------------------------------------
\* the bytes send_msg writes for the messages s
RECURSIVE WireOf(_)
WireOf(s) ==
    IF s = <<>> THEN <<>>
    ELSE StructPackI(Len(Packb(s[1]))) \o Packb(s[1]) \o WireOf(Tail(s))

\* C33: on one stream the messages written by successive send_msg calls are
\* returned by successive recv_msg calls in the same order, for every way
\* the transport splits the bytes into reads; after the writer has closed
\* the stream, the next recv_msg returns None.
C33_MessagesInOrder ==
    /\ Len(q_got) <= Len(q_sent)
    /\ \A i \in 1..Len(q_got) : PyEqual(q_got[i], q_sent[i])
    /\ q_pc = "idle" => q_pos = Len(WireOf(q_got))
    /\ q_pc = "end" => q_closed /\ q_got = q_sent

\* two different messages were written and read back in order, and the
\* recv_msg after them returned None
C33_Witness ==
    /\ q_pc = "end"
    /\ Len(q_got) = 2
    /\ q_got = q_sent
    /\ q_got[1] # q_got[2]
    /\ Unread = 0

\* C34: receive_exactly(stream, n) returns exactly the next n bytes of the
\* stream in arrival order, whatever sizes the stream delivers them in; it
\* never asks for more than the bytes still missing, so it consumes no byte
\* beyond the n requested; and it raises EndOfChannel if the stream ends
\* before n bytes have arrived.
C34_ReceiveExactly ==
    /\ q_pc \in {"header", "payload"} =>
        /\ Len(q_buf) <= q_n
        /\ q_pos = q_start + Len(q_buf)
        /\ q_buf = SubSeq(q_wire, q_start + 1, q_start + Len(q_buf))
        /\ (Len(q_buf) < q_n /\ q_closed /\ Unread = 0) =>
            ENABLED QEndOfChannel /\ ~ENABLED QReceiveSome
    /\ q_pc = "end" => q_closed /\ Unread = 0 /\ Len(q_buf) < q_n

\* a payload of 7 bytes was received whole while bytes of the next frame
\* stay unread on the stream
C34_Witness ==
    /\ q_pc = "payload"
    /\ q_n = 7
    /\ Len(q_buf) = q_n
    /\ Unread > 0

---------------------------------------------------------------------------
\* the bounds of the model stop the loop: no further attempt, or no further
\* line, can be taken
AtBound ==
    \/ c_pc = "attempt" /\ Len(c_sent) = MaxAttempts
    \/ c_pc = "lines" /\ Len(c_cur) = MaxLines

\* a done or error for the request's id is among the lines read
TerminalDelivered == \E i \in 1..Len(c_cur) : MatchingTerminal(c_cur[i], c_id)

\* C35: under fairness, when attempts reach the engine and the response
\* stream of an attempt contains a terminal message for the request's id,
\* submit_task eventually terminates: it does not stay in its retry loop
\* once a matching done or error message is delivered. (A run the bounds
\* stop before any terminal message was delivered is left open.)
C35_EventuallyTerminates ==
    <>(c_pc = "returned" \/ (AtBound /\ ~TerminalDelivered))

\* the first attempt failed, the second one was given done and submit_task
\* has ended
C35_Witness ==
    /\ c_pc = "returned"
    /\ c_end = "done"
    /\ Len(c_sent) = 2
    /\ TerminalDelivered

---------------------------------------------------------------------------
\* app_client.connect() returned: handle_task is past line 71
DownstreamConnected ==
    /\ r_pc \notin {"start", "connect"}
    /\ r_end # "dropped"
    /\ r_exc # "connect failed"

\* the send of the made-up error message was tried and failed
ErrorSendFailed ==
    /\ r_exc # Absent
    /\ r_pc \in {"finally", "returned"}
    /\ r_in = SubSeq(r_calls, 1, Len(r_calls) - 1)

\* C36: on every exit path of handle_task that follows a successful
\* downstream connect (terminal message relayed, downstream closed,
\* exception while relaying, failure of the made-up error send) the outbound
\* connection is closed before handle_task returns; an outbound connection
\* is open only while its task is between connect and the finally clause.
C36_OutboundClosedOnExit ==
    /\ r_pc = "returned" /\ DownstreamConnected => r_conn = "closed"
    /\ r_pc = "returned" => r_end \in {"dropped", "terminal", "eof", "exception"}
    /\ r_conn = "open" =>
        r_pc \in {"sendreq", "recv", "fwd", "except", "finally"}

\* the relay failed, the error send failed too, and handle_task has returned
\* with the outbound connection closed
C36_Witness ==
    /\ r_pc = "returned"
    /\ r_exc = "receive failed"
    /\ ErrorSendFailed
    /\ r_conn = "closed"

---------------------------------------------------------------------------
\* the lines the loop body passes over: an empty line, a line that is no
\* JSON, and a result for the id rid whose type is none of chunk, done, error
SkippedLines(rid) == {EmptyLine, BadLine, OtherLine(rid)}

\* the step reads one more line of the current response, and it is l
ReadsLine(l) == c_pc = "lines" /\ c_cur' = Append(c_cur, l)

\* C37: in submit_task an empty line, a line that is not valid JSON, and a
\* message with the request's id whose result type is none of chunk, done
\* and error are skipped: nothing is yielded, the sequence does not end and
\* no new attempt is made.
C37_SkippedLinesChangeNothing ==
    [][\A l \in SkippedLines(c_id) :
          ReadsLine(l) =>
              /\ c_yield' = c_yield
              /\ c_pc' = "lines"
              /\ c_end' = c_end /\ c_outcome' = c_outcome
              /\ c_sent' = c_sent /\ c_hist' = c_hist]_vars

\* a line that is no JSON and a result of unknown type were read in the first
\* attempt, which is still being read
C37_Witness ==
    /\ c_pc = "lines"
    /\ c_cur = <<BadLine, OtherLine(c_id)>>
    /\ c_yield = <<>>
    /\ Len(c_sent) = 1
    /\ c_end = "none"

====
